---- MODULE Spec2Model ----
(***************************************************************************)
(* A model of the glimpse interpreter (dball/glimpse): the value model of  *)
(* package types, the seq helpers of package runtime, the built-ins of     *)
(* package core and the evaluator of package main.                         *)
(*                                                                         *)
(* Go values are records tagged by the field t.  A Go function that can    *)
(* fail returns a record with a field k: "ok", "err" (an error result),   *)
(* "panic" (a Go run-time panic, which nothing in the program recovers    *)
(* from: the process aborts) or "diverge" (the evaluation budget of the    *)
(* model ran out).                                                         *)
(***************************************************************************)
EXTENDS Integers, Sequences, FiniteSets, TLC

VARIABLES
    heap,     \* the frames and the atoms of the interpreter
    run,      \* the activation of EVAL that rep started: its evalEnv and form
    last,     \* what the last rep returned
    scenario, \* which family of inputs the REPL session draws from
    envImpl,  \* which of the two versions of Env the build has
    imms,     \* the objects of the immutable library, by address
    colls     \* the List, Vector and Map structs made so far

vars == <<heap, run, last, scenario, envImpl, imms, colls>>

\* F applied to x, for a result x of a call that F uses more than once:
\* Bind(f(a), LAMBDA r : e) is e with the result of f(a) for r.
Bind(x, F(_)) == F(x)

(***************************************************************************)
(* Values (types.MalType)                                                  *)
(***************************************************************************)
GoNil == [t |-> "gonil"]
NilV == [t |-> "nil"]
Integer(n) == [t |-> "int", n |-> n]
String(s) == [t |-> "str", s |-> s]
Symbol(name) == [t |-> "sym", name |-> name]
Keyword(name) == [t |-> "kw", kname |-> name]
Boolean(b) == [t |-> "bool", b |-> b]
List(items) == [t |-> "list", items |-> items]
NilImmList == [t |-> "list", items |-> <<>>, nilimm |-> TRUE]
Vector(items) == [t |-> "vec", items |-> items]
Map(entries) == [t |-> "map", entries |-> entries]
SliceSeq(items) == [t |-> "slice", items |-> items]
ListIteratorSeq(src, idx) ==
    IF "nilimm" \in DOMAIN src
    THEN [t |-> "iter", items |-> <<>>, idx |-> idx, nilimm |-> TRUE]
    ELSE [t |-> "iter", items |-> src.items, idx |-> idx]
ConsCell(head, tail) == [t |-> "cons", head |-> head, tail |-> tail]
Concatenation(seqs) == [t |-> "concat", seqs |-> seqs]
Atom(id) == [t |-> "atom", id |-> id]
NativeFn(name) == [t |-> "fn", nat |-> name, macro |-> FALSE]
Closure(binds, body, env) ==
    [t |-> "fn", binds |-> binds, body |-> body, env |-> env, macro |-> FALSE]
MalError(reason) == [t |-> "malerr", reason |-> reason]
Undefined(name) == [t |-> "undef", uname |-> name]
GoError(msg) == [t |-> "error", msg |-> msg]
Rune(r) == [t |-> "rune", r |-> r]

\* []rune(s) for the strings the model uses.
StringRunes(s) ==
    CASE s = "" -> <<>>
      [] s = "a" -> <<"a">>
      [] s = "b" -> <<"b">>
      [] s = "ab" -> <<"a", "b">>
      [] s = "boom" -> <<"b", "o", "o", "m">>

IsNative(fn) == "nat" \in DOMAIN fn
IsNilImm(v) == "nilimm" \in DOMAIN v

\* The Go interfaces of package types, as the sets of dynamic types that
\* implement them.
IsSeq(v) == v.t \in {"slice", "iter", "cons", "concat", "nil"}
IsSeqable(v) == v.t \in {"list", "vec", "map", "cons", "concat", "nil", "str"}
IsSequential(v) == v.t \in {"list", "vec", "cons", "concat"}
IsApplicable(v) == v.t \in {"list", "cons", "concat"}
HasSimpleValueEquality(v) ==
    v.t \in {"int", "sym", "kw", "str", "bool", "nil", "rune", "atom"}

(***************************************************************************)
(* Seq.Next                                                                *)
(***************************************************************************)
NextR(e, h, tl) == [p |-> FALSE, e |-> e, h |-> h, tl |-> tl]
NextEmpty == NextR(TRUE, GoNil, GoNil)
NextPanic == [p |-> TRUE, e |-> TRUE, h |-> GoNil, tl |-> GoNil]

RECURSIVE SeqNext(_)
ConcatenationNext(c) ==
    Bind(SeqNext(c.seqs[1]), LAMBDA f :
    IF f.p THEN NextPanic
    ELSE Bind(SeqNext(f.tl), LAMBDA tn :
         IF tn.p THEN NextPanic
         ELSE IF tn.e
              THEN IF Len(c.seqs) = 1 THEN NextR(FALSE, f.h, NilV)
                   ELSE IF Len(c.seqs) = 2 THEN NextR(FALSE, f.h, c.seqs[2])
                   ELSE NextR(FALSE, f.h, Concatenation(Tail(c.seqs)))
              ELSE NextR(FALSE, f.h, Concatenation(<<f.tl>> \o Tail(c.seqs)))))

SliceSeqNext(seq) ==
    IF Len(seq.items) = 0 THEN NextEmpty
    ELSE NextR(FALSE, Head(seq.items), SliceSeq(Tail(seq.items)))

ListIteratorSeqNext(seq) ==
    IF IsNilImm(seq) THEN NextPanic
    ELSE IF seq.idx >= Len(seq.items) THEN NextEmpty
    ELSE NextR(FALSE, seq.items[seq.idx + 1],
               [t |-> "iter", items |-> seq.items, idx |-> seq.idx + 1])

SeqNext(s) ==
    CASE s.t = "slice" -> SliceSeqNext(s)
      [] s.t = "iter" -> ListIteratorSeqNext(s)
      [] s.t = "cons" -> NextR(FALSE, s.head, s.tail)
      [] s.t = "concat" -> ConcatenationNext(s)
      [] s.t = "nil" -> NextEmpty
      [] OTHER -> NextPanic

\* Map.Seq: the entries, in the iteration order of the immutable map, as
\* two-element vectors.
MapSeq(m) ==
    IF Len(m.entries) = 0 THEN NilV
    ELSE SliceSeq([i \in 1..Len(m.entries) |->
                     Vector(<<m.entries[i][1], m.entries[i][2]>>)])

\* The Seq method of the Seqable types.
SeqOf(v) ==
    CASE v.t \in {"list", "vec"} -> ListIteratorSeq(v, 0)
      [] v.t = "map" -> MapSeq(v)
      [] v.t = "str" ->
           ListIteratorSeq(List([i \in 1..Len(StringRunes(v.s)) |->
                                   Rune(StringRunes(v.s)[i])]), 0)
      [] OTHER -> v

(***************************************************************************)
(* Equals                                                                  *)
(***************************************************************************)
\* A comparison of atoms by the values they hold.
ValueEqualsByContent(this, that) ==
    IF this.t = "atom" /\ that.t = "atom"
    THEN heap.atoms[this.id] = heap.atoms[that.id]
    ELSE this = that

ValueEquals(this, that) == this = that

RECURSIVE EqualsR(_, _), SeqEqualsR(_, _), MapGet(_, _), MapEqualsR(_, _, _)

\* immutable.Map.Get with hasher{}: the first entry whose key is Equal.
MapGet(entries, key) ==
    IF entries = <<>> THEN [found |-> FALSE, v |-> GoNil]
    ELSE IF EqualsR(Head(entries)[1], key) = "t"
         THEN [found |-> TRUE, v |-> Head(entries)[2]]
         ELSE MapGet(Tail(entries), key)

MapEqualsR(thisEntries, i, thatEntries) ==
    IF i > Len(thisEntries) THEN "t"
    ELSE Bind(MapGet(thatEntries, thisEntries[i][1]), LAMBDA g :
         IF ~g.found THEN "f"
         ELSE Bind(EqualsR(thisEntries[i][2], g.v), LAMBDA r :
              IF r # "t" THEN r ELSE MapEqualsR(thisEntries, i + 1, thatEntries)))

SeqEqualsR(thisSeq, thatSeq) ==
    Bind(SeqNext(thisSeq), LAMBDA a :
    Bind(SeqNext(thatSeq), LAMBDA b :
    IF a.p \/ b.p THEN "panic"
    ELSE IF a.e /\ b.e THEN "t"
    ELSE IF a.e \/ b.e THEN "f"
    ELSE Bind(EqualsR(a.h, b.h), LAMBDA r :
         IF r # "t" THEN r ELSE SeqEqualsR(a.tl, b.tl))))

\* Equals with its three outcomes: "t", "f" and "panic".
EqualsR(this, that) ==
    CASE HasSimpleValueEquality(this) ->
           IF ValueEquals(this, that) THEN "t" ELSE "f"
      [] this.t = "map" ->
           IF that.t # "map" THEN "f"
           ELSE IF Len(this.entries) # Len(that.entries) THEN "f"
           ELSE MapEqualsR(this.entries, 1, that.entries)
      [] IsSequential(this) ->
           IF ~IsSequential(that) THEN "f"
           ELSE SeqEqualsR(SeqOf(this), SeqOf(that))
      [] OTHER -> "f"

Equals(this, that) == EqualsR(this, that) = "t"

(***************************************************************************)
(* Hash: murmur3.New32 over the bytes that hashAnyValue writes.  A uint32  *)
(* is a pair <<high half, low half>> of 16-bit numbers, so that no         *)
(* intermediate result leaves the integers of the model checker.           *)
(***************************************************************************)
Half == 65536

Pow2(n) ==
    <<1, 2, 4, 8, 16, 32, 64, 128, 256, 512, 1024, 2048, 4096, 8192, 16384, 32768,
      65536, 131072, 262144, 524288, 1048576, 2097152, 4194304, 8388608,
      16777216>>[n + 1]

\* bit i of a ^ b, in its place
XorBit(a, b, i) == ((((a \div Pow2(i)) + (b \div Pow2(i))) % 2)) * Pow2(i)

\* a ^ b for two halves
Xor16(a, b) ==
    (((XorBit(a, b, 0) + XorBit(a, b, 1)) + (XorBit(a, b, 2) + XorBit(a, b, 3)))
     + ((XorBit(a, b, 4) + XorBit(a, b, 5)) + (XorBit(a, b, 6) + XorBit(a, b, 7))))
    + (((XorBit(a, b, 8) + XorBit(a, b, 9)) + (XorBit(a, b, 10) + XorBit(a, b, 11)))
       + ((XorBit(a, b, 12) + XorBit(a, b, 13)) + (XorBit(a, b, 14) + XorBit(a, b, 15))))

U32Xor(x, y) == <<Xor16(x[1], y[1]), Xor16(x[2], y[2])>>

\* the low half of the product of two halves
MulLow(a, b) == ((a % 256) * b + (((a \div 256) * b) % 256) * 256) % Half

\* the high half of the product of two halves
MulHigh(a, b) ==
    Bind((a % 256) * b, LAMBDA p :
    Bind((a \div 256) * b, LAMBDA q :
       (((p + (q % 256) * 256) \div Half) + (q \div 256)) % Half))

\* x * y in uint32
U32Mul(x, y) ==
    <<(MulHigh(x[2], y[2]) + MulLow(x[1], y[2]) + MulLow(x[2], y[1])) % Half,
      MulLow(x[2], y[2])>>

\* x + y in uint32
U32Add(x, y) ==
    <<(x[1] + y[1] + ((x[2] + y[2]) \div Half)) % Half, (x[2] + y[2]) % Half>>

\* bits.RotateLeft32(x, r), 0 < r < 16
U32Rotl(x, r) ==
    <<((x[1] * Pow2(r)) % Half) + (x[2] \div Pow2(16 - r)),
      ((x[2] * Pow2(r)) % Half) + (x[1] \div Pow2(16 - r))>>

\* x >> r, 0 < r <= 16
U32Shr(x, r) ==
    <<x[1] \div Pow2(r), (x[2] \div Pow2(r)) + ((x[1] % Pow2(r)) * Pow2(16 - r))>>

murmurC1 == <<52382, 11601>>
murmurC2 == <<7047, 13715>>
murmurN == <<58964, 27492>>
fmixC1 == <<34283, 51819>>
fmixC2 == <<49842, 44597>>

\* the scrambling of one block k1
murmurK(k1) == U32Mul(U32Rotl(U32Mul(k1, murmurC1), 15), murmurC2)

\* the four bytes of a block, little-endian
murmurBlock(bytes, i) ==
    <<bytes[i + 3] * 256 + bytes[i + 2], bytes[i + 1] * 256 + bytes[i]>>

\* digest32.bmix: d is the digest, its h1 and the place i of the next byte
RECURSIVE bmix(_, _)
bmix(d, bytes) ==
    IF d.i + 3 > Len(bytes) THEN d.h1
    ELSE bmix([h1 |-> U32Add(U32Mul(U32Rotl(U32Xor(d.h1,
                                                   murmurK(murmurBlock(bytes, d.i))),
                                            13),
                                    <<0, 5>>),
                             murmurN),
               i |-> d.i + 4],
              bytes)

\* the tail of Sum32: the bytes after the last whole block
murmurTail(h1, bytes) ==
    Bind(Len(bytes), LAMBDA n :
    Bind(n % 4, LAMBDA r :
    LET at(j)  == bytes[n - r + j] IN
    Bind(<<IF r = 3 THEN at(3) ELSE 0,
                (IF r >= 2 THEN at(2) * 256 ELSE 0) + (IF r >= 1 THEN at(1) ELSE 0)>>, LAMBDA k1 :
       IF r = 0 THEN h1 ELSE U32Xor(h1, murmurK(k1)))))

fmix32(h0) ==
    Bind(U32Xor(h0, U32Shr(h0, 16)), LAMBDA h1 :
    Bind(U32Mul(h1, fmixC1), LAMBDA h2 :
    Bind(U32Xor(h2, U32Shr(h2, 13)), LAMBDA h3 :
    Bind(U32Mul(h3, fmixC2), LAMBDA h4 :
       U32Xor(h4, U32Shr(h4, 16))))))

\* murmur3.New32, Write of the bytes, Sum32
Sum32(bytes) ==
    fmix32(U32Xor(murmurTail(bmix([h1 |-> <<0, 0>>, i |-> 1], bytes), bytes),
                  <<0, Len(bytes)>>))

\* the byte of a one-byte rune of the names and strings the model uses
RuneByte(c) ==
    CASE c = "a" -> 97
      [] c = "b" -> 98
      [] c = "m" -> 109
      [] c = "o" -> 111

\* []byte(s)
StringBytes(s) == [i \in 1..Len(StringRunes(s)) |-> RuneByte(StringRunes(s)[i])]

\* binary.LittleEndian.PutUint64(b, uint64(n)) for an n of 32 bits
Uint64Bytes(n) ==
    [i \in 1..8 |-> IF i <= 4 THEN (n \div Pow2(8 * (i - 1))) % 256
                    ELSE IF n < 0 THEN 255 ELSE 0]

\* the hashBytes methods
hashBytes(v) ==
    CASE v.t = "int" -> Uint64Bytes(v.n)
      [] v.t = "sym" -> Append(StringBytes(v.name), 39)
      [] v.t = "kw" -> Append(StringBytes(v.kname), 58)
      [] v.t = "str" -> StringBytes(v.s)
      [] v.t = "nil" -> <<0>>
      [] v.t = "bool" -> IF v.b THEN <<1>> ELSE <<0>>
      [] v.t = "rune" -> <<RuneByte(v.r)>>
      [] v.t = "atom" -> Uint64Bytes(v.id)

\* hashAnyValue: the bytes it writes to the hash
RECURSIVE hashAnyValue(_), hashSeq(_)
hashSeq(seq) ==
    Bind(SeqNext(seq), LAMBDA nx :
    IF nx.e THEN <<>> ELSE hashAnyValue(nx.h) \o hashSeq(nx.tl))

hashAnyValue(value) ==
    CASE HasSimpleValueEquality(value) -> hashBytes(value)
      [] IsSequential(value) -> hashSeq(SeqOf(value))
      [] value.t = "map" -> <<123, 125>> \o hashSeq(SeqOf(value))
      [] OTHER -> <<>>

\* Hash
Hash(value) == Sum32(hashAnyValue(value))

(***************************************************************************)
(* Results of the Go functions that can fail                               *)
(***************************************************************************)
Ok(v, H) == [k |-> "ok", v |-> v, H |-> H]
Err(e, H) == [k |-> "err", v |-> e, H |-> H]
Panic(H) == [k |-> "panic", v |-> GoNil, H |-> H]
Diverge(H) == [k |-> "diverge", v |-> GoNil, H |-> H]
\* The end of an iteration of the EVAL loop by continue, with the evalEnv
\* and the form of the next iteration.
Continue(env, form, H) ==
    [k |-> "continue", v |-> GoNil, H |-> H, env |-> env, form |-> form]

Max(a, b) == IF a >= b THEN a ELSE b
SetMax(S) == CHOOSE x \in S : \A y \in S : y <= x
NoBindings == [n \in {} |-> GoNil]

invalidType == GoError("Invalid type")
invalidValue == GoError("Invalid value")

(***************************************************************************)
(* Package runtime                                                         *)
(***************************************************************************)
\* runtime.Seq: [k, v], k one of "ok", "err", "panic".
RuntimeSeq(value) ==
    IF ~(IsSeq(value) \/ IsSeqable(value)) THEN [k |-> "err", v |-> invalidType]
    ELSE Bind(SeqOf(value), LAMBDA seq :
         Bind(SeqNext(seq), LAMBDA n :
         IF n.p THEN [k |-> "panic", v |-> GoNil]
         ELSE IF n.e THEN [k |-> "ok", v |-> NilV]
         ELSE [k |-> "ok", v |-> seq]))

\* runtime.Empty
Empty(value) ==
    Bind(RuntimeSeq(value), LAMBDA s :
    IF s.k # "ok" THEN s
    ELSE [k |-> "ok", v |-> Boolean(SeqNext(s.v).e)])

RECURSIVE IntoSliceLoop(_, _)
IntoSliceLoop(seq, values) ==
    Bind(SeqNext(seq), LAMBDA n :
    IF n.p THEN [k |-> "panic", v |-> <<>>]
    ELSE IF n.e THEN [k |-> "ok", v |-> values]
    ELSE IntoSliceLoop(n.tl, Append(values, n.h)))

\* runtime.IntoSlice: [k, v] with v the slice of the items.
IntoSlice(value) ==
    Bind(RuntimeSeq(value), LAMBDA s :
    IF s.k # "ok" THEN [k |-> s.k, v |-> <<>>, e |-> s.v]
    ELSE IntoSliceLoop(s.v, <<>>) @@ [e |-> GoNil])

RECURSIVE ConcatSeqs(_, _, _)
ConcatSeqs(values, i, seqs) ==
    IF i > Len(values) THEN [k |-> "ok", v |-> seqs]
    ELSE Bind(RuntimeSeq(values[i]), LAMBDA s :
         IF s.k # "ok" THEN s
         ELSE IF SeqNext(s.v).e THEN ConcatSeqs(values, i + 1, seqs)
         ELSE ConcatSeqs(values, i + 1, Append(seqs, s.v)))

\* A Concat that wraps a single non-empty seq in a Concatenation as well.
ConcatWrapsOne(values) ==
    Bind(ConcatSeqs(values, 1, <<>>), LAMBDA r :
    IF r.k # "ok" THEN r
    ELSE IF Len(r.v) = 0 THEN [k |-> "ok", v |-> List(<<>>)]
    ELSE [k |-> "ok", v |-> Concatenation(r.v)])

\* runtime.Concat
Concat(values) ==
    Bind(ConcatSeqs(values, 1, <<>>), LAMBDA r :
    IF r.k # "ok" THEN r
    ELSE IF Len(r.v) = 0 THEN [k |-> "ok", v |-> List(<<>>)]
    ELSE IF Len(r.v) = 1 THEN [k |-> "ok", v |-> r.v[1]]
    ELSE [k |-> "ok", v |-> Concatenation(r.v)])

IsConjable(v) == v.t \in {"list", "vec", "cons", "concat", "nil"}

\* The Conj method of the Conjable types.
ConjOne(coll, value) ==
    CASE coll.t = "list" -> List(<<value>> \o coll.items)
      [] coll.t = "vec" -> Vector(Append(coll.items, value))
      [] coll.t = "nil" -> List(<<value>>)
      [] OTHER -> ConsCell(value, coll)

\* runtime.TakeDrop (the seq of the items taken)
RECURSIVE TakeDropLoop(_, _, _, _)
TakeDropLoop(seq, in, i, items) ==
    IF i = in THEN [k |-> "ok", v |-> SliceSeq(items)]
    ELSE Bind(SeqNext(seq), LAMBDA x :
         IF x.p THEN [k |-> "panic", v |-> GoNil]
         ELSE IF x.e THEN [k |-> "ok", v |-> SliceSeq(items)]
         ELSE TakeDropLoop(x.tl, in, i + 1, Append(items, x.h)))
TakeDrop(n, value) ==
    IF n.t # "int" THEN [k |-> "err", v |-> invalidType]
    ELSE IF n.n < 0 THEN [k |-> "err", v |-> invalidValue]
    ELSE Bind(RuntimeSeq(value), LAMBDA s :
         IF s.k # "ok" THEN s ELSE TakeDropLoop(s.v, n.n, 0, <<>>))

RECURSIVE ConjLoop(_, _, _)
ConjLoop(conjable, values, i) ==
    IF i > Len(values) THEN conjable
    ELSE ConjLoop(ConjOne(conjable, values[i]), values, i + 1)

\* runtime.Conj
Conj(coll, values) ==
    IF ~IsConjable(coll) THEN [k |-> "err", v |-> GoError("Invalid conj target")]
    ELSE IF IsNilImm(coll) /\ Len(values) > 0 THEN [k |-> "panic", v |-> GoNil]
    ELSE [k |-> "ok", v |-> ConjLoop(coll, values, 1)]

RECURSIVE NthLoop(_, _, _)
NthLoop(seq, i, n) ==
    Bind(SeqNext(seq), LAMBDA x :
    IF x.p THEN [k |-> "panic", v |-> GoNil]
    ELSE IF x.e THEN [k |-> "err", v |-> invalidValue]
    ELSE IF i = n THEN [k |-> "ok", v |-> x.h]
    ELSE NthLoop(x.tl, i + 1, n))

\* runtime.Nth
Nth(value, n) ==
    Bind(RuntimeSeq(value), LAMBDA s :
    IF s.k # "ok" THEN s
    ELSE IF n.t # "int" THEN [k |-> "err", v |-> invalidValue]
    ELSE IF n.n < 0 THEN [k |-> "err", v |-> invalidValue]
    ELSE NthLoop(s.v, 0, n.n))

\* The Lookup method of the Indexed types: [found, v].
Lookup(coll, index) ==
    CASE coll.t = "vec" ->
           IF index.t # "int" THEN [found |-> FALSE, v |-> GoNil]
           ELSE IF index.n < 0 \/ index.n >= Len(coll.items)
                THEN [found |-> FALSE, v |-> GoNil]
                ELSE [found |-> TRUE, v |-> coll.items[index.n + 1]]
      [] coll.t = "map" -> MapGet(coll.entries, index)
      [] OTHER -> [found |-> FALSE, v |-> GoNil]

IsIndexed(v) == v.t \in {"vec", "map", "nil"}

\* runtime.Get
Get(coll, index, notfound) ==
    IF ~IsIndexed(coll) THEN notfound
    ELSE Bind(Lookup(coll, index), LAMBDA r :
         IF ~r.found THEN notfound ELSE r.v)

\* runtime.Contains
Contains(coll, index) ==
    IF ~IsIndexed(coll) THEN Boolean(FALSE)
    ELSE Boolean(Lookup(coll, index).found)

(***************************************************************************)
(* Persistent map operations (immutable.Map with hasher{}).  A map of at   *)
(* most MaxArrayMapSize entries is one array node, which keeps its         *)
(* entries in insertion order; the model keeps maps within that size.      *)
(***************************************************************************)
RECURSIVE MapIndex(_, _, _)
MapIndex(entries, key, i) ==
    IF i > Len(entries) THEN 0
    ELSE IF EqualsR(entries[i][1], key) = "t" THEN i
    ELSE MapIndex(entries, key, i + 1)

\* immutable.Map.Set / MapBuilder.Set
MapSet(entries, key, value) ==
    Bind(MapIndex(entries, key, 1), LAMBDA i :
    IF i = 0 THEN Append(entries, <<key, value>>)
    ELSE [entries EXCEPT ![i] = <<key, value>>])

\* immutable.Map.Delete / MapBuilder.Delete
MapDelete(entries, key) ==
    Bind(MapIndex(entries, key, 1), LAMBDA i :
    IF i = 0 THEN entries
    ELSE SubSeq(entries, 1, i - 1) \o SubSeq(entries, i + 1, Len(entries)))

RECURSIVE NewMapLoop(_, _, _)
NewMapLoop(values, i, entries) ==
    IF i > Len(values) THEN entries
    ELSE NewMapLoop(values, i + 2, MapSet(entries, values[i], values[i + 1]))

\* types.NewMap, for an even number of values.
NewMap(values) == Map(NewMapLoop(values, 1, <<>>))

(***************************************************************************)
(* Env.  The heap H holds the frames (H.envs, by frame id; the global      *)
(* frame is 1 and outer = 0 is the nil link) and the atoms (H.atoms, by    *)
(* atom id).  The repository has two versions of Env: bindings in a Go     *)
(* map (types/types.go, envImpl = "chain") and bindings in an immutable   *)
(* map that a derived frame starts from (the second Env, envImpl =         *)
(* "snapshot").                                                            *)
(***************************************************************************)
GlobalEnv == 1

\* A fresh address: any id no live object has.
NewId(objs) == CHOOSE i \in 1..(Cardinality(DOMAIN objs) + 1) :
                   i \notin DOMAIN objs /\ \A j \in 1..(i - 1) : j \in DOMAIN objs

\* The nearest frame of the chain of env that binds name; env if none does.
RECURSIVE BindingFrame(_, _, _, _)
BindingFrame(H, env, name, dflt) ==
    IF name \in DOMAIN H.envs[env].b THEN env
    ELSE IF H.envs[env].outer = 0 THEN dflt
    ELSE BindingFrame(H, H.envs[env].outer, name, dflt)

\* A Set that walks outward to the frame that binds the name.
EnvSetOutward(H, env, name, value) ==
    [H EXCEPT !.envs[BindingFrame(H, env, name, env)].b = (name :> value) @@ @]

\* Env.Set
EnvSet(H, env, name, value) ==
    [H EXCEPT !.envs[env].b = (name :> value) @@ @]

\* Env.Get: [k, v]
RECURSIVE EnvGet(_, _, _)

\* A Get that prefers the binding of an outer frame.
EnvGetOuterFirst(H, env, name) ==
    Bind(H.envs[env].outer, LAMBDA outer :
    IF outer # 0 /\ EnvGet(H, outer, name).k = "ok" THEN EnvGet(H, outer, name)
    ELSE IF name \in DOMAIN H.envs[env].b THEN [k |-> "ok", v |-> H.envs[env].b[name]]
    ELSE [k |-> "err", v |-> Undefined(name)])

EnvGet(H, env, name) ==
    IF name \in DOMAIN H.envs[env].b THEN [k |-> "ok", v |-> H.envs[env].b[name]]
    ELSE IF H.envs[env].outer = 0 THEN [k |-> "err", v |-> Undefined(name)]
    ELSE EnvGet(H, H.envs[env].outer, name)

RECURSIVE SetBinds(_, _, _, _)
SetBinds(b, bindSymbols, exprs, i) ==
    IF i > Len(bindSymbols) THEN b
    ELSE SetBinds((bindSymbols[i].name :> exprs[i]) @@ b, bindSymbols, exprs, i + 1)

\* A DeriveEnv for which every parameter is positional.
DeriveEnvPositional(H, Outer, binds, exprs) ==
    IF \E i \in 1..Len(binds) : binds[i].t # "sym"
    THEN [k |-> "err", v |-> GoError("binds must be symbols"), H |-> H, env |-> 0]
    ELSE IF Len(binds) > Len(exprs)
    THEN [k |-> "err", v |-> GoError("no expr for bind"), H |-> H, env |-> 0]
    ELSE Bind(NewId(H.envs), LAMBDA id :
         [k |-> "ok", v |-> GoNil, env |-> id,
          H |-> [H EXCEPT !.envs =
                    (id :> [outer |-> Outer,
                            b |-> SetBinds(IF envImpl = "snapshot" THEN H.envs[Outer].b
                                           ELSE NoBindings, binds, exprs, 1)]) @@ @]])

\* types.DeriveEnv: [k, v, H, env]
DeriveEnv(H, Outer, binds, exprs) ==
    IF \E i \in 1..Len(binds) : binds[i].t # "sym"
    THEN [k |-> "err", v |-> GoError("binds must be symbols"), H |-> H, env |-> 0]
    ELSE Bind(Len(binds), LAMBDA n :
         Bind(n >= 2 /\ binds[n - 1].name = "&", LAMBDA varargs :
         Bind(IF varargs THEN SubSeq(binds, 1, n - 2) ELSE binds, LAMBDA bindSymbols :
         Bind(Len(bindSymbols), LAMBDA m :
         IF m > Len(exprs)
         THEN [k |-> "err", v |-> GoError("no expr for bind"), H |-> H, env |-> 0]
         ELSE Bind(IF envImpl = "snapshot" THEN H.envs[Outer].b ELSE NoBindings, LAMBDA b0 :
              Bind(SetBinds(b0, bindSymbols, exprs, 1), LAMBDA b1 :
              Bind(IF varargs
                        THEN (binds[n].name :> List(SubSeq(exprs, m + 1, Len(exprs)))) @@ b1
                        ELSE b1, LAMBDA b2 :
              Bind(NewId(H.envs), LAMBDA id :
                 [k |-> "ok", v |-> GoNil, env |-> id,
                  H |-> [H EXCEPT !.envs = (id :> [outer |-> Outer, b |-> b2]) @@ @]]))))))))

(***************************************************************************)
(* Package core: the built-ins that neither call a function nor touch an   *)
(* atom.  PureNative(name, args) is [k, v].                                *)
(***************************************************************************)
POk(v) == [k |-> "ok", v |-> v]
PErr(msg) == [k |-> "err", v |-> GoError(msg)]
PPanic == [k |-> "panic", v |-> GoNil]

\* A Go int64 that is not a types.Integer.
GoInt64(n) == [t |-> "goint64", n |-> n]
\* A Go []MalType held as a value.
GoSlice(items) == [t |-> "goslice", items |-> items]

Abs(n) == IF n < 0 THEN -n ELSE n
\* Go's integer division, which truncates toward zero.
Quot(a, b) == IF (a < 0) # (b < 0) THEN -(Abs(a) \div Abs(b)) ELSE Abs(a) \div Abs(b)

\* intList
intListOk(items) == \A i \in 1..Len(items) : items[i].t = "int"

RECURSIVE IntFold(_, _, _, _)
IntFold(op, acc, items, i) ==
    IF i > Len(items) THEN acc
    ELSE IntFold(op,
                 CASE op = "+" -> acc + items[i].n
                   [] op = "-" -> acc - items[i].n
                   [] op = "*" -> acc * items[i].n
                   [] op = "/" -> Quot(acc, items[i].n),
                 items, i + 1)

\* types.Compare: [k, v] with v in {-1, 0, 1}
Compare(this, that) ==
    IF this.t # "int" \/ that.t # "int" THEN PErr("Incomparable values")
    ELSE POk(IF this.n > that.n THEN 1 ELSE IF this.n = that.n THEN 0 ELSE -1)

\* The loop of >=, >, <= and <: bad is the set of Compare results that
\* make the answer false.
RECURSIVE CompareLoop(_, _, _, _)
CompareLoop(this, args, i, bad) ==
    IF i > Len(args) THEN POk(Boolean(TRUE))
    ELSE Bind(Compare(this, args[i]), LAMBDA c :
         IF c.k # "ok" THEN c
         ELSE IF c.v \in bad THEN POk(Boolean(FALSE))
         ELSE CompareLoop(args[i], args, i + 1, bad))

RECURSIVE EqualsLoop(_, _, _)
EqualsLoop(this, args, i) ==
    IF i > Len(args) THEN POk(Boolean(TRUE))
    ELSE Bind(EqualsR(this, args[i]), LAMBDA r :
         IF r = "panic" THEN PPanic
         ELSE IF r = "f" THEN POk(Boolean(FALSE))
         ELSE EqualsLoop(this, args, i + 1))

IsCounted(v) == v.t \in {"list", "vec", "map", "nil", "slice"}
Count(v) == IF v.t = "map" THEN Len(v.entries) ELSE IF v.t = "nil" THEN 0 ELSE Len(v.items)

\* The loops of assoc and dissoc, for the map they return (every Set of
\* assoc has args[1] for its key).  What they do to the object of the map
\* they are given is in the section on the collections as Go objects.
RECURSIVE AssocLoop(_, _, _)
AssocLoop(entries, args, i) ==
    IF i >= Len(args) THEN entries
    ELSE AssocLoop(MapSet(entries, args[2], args[i + 1]), args, i + 2)

RECURSIVE DissocLoop(_, _, _)
DissocLoop(entries, args, i) ==
    IF i > Len(args) THEN entries
    ELSE DissocLoop(MapDelete(entries, args[i]), args, i + 1)

\* runtime.Keys (which = 1) and runtime.Vals (which = 2): the loop stores
\* every key in items[0]; the other slots keep the nil they were made with.
KeysVals(coll, which) ==
    IF coll.t # "map" THEN [k |-> "err", v |-> invalidType]
    ELSE LET n == Len(coll.entries) IN
         POk(List([i \in 1..n |-> IF i = 1 THEN coll.entries[n][which] ELSE GoNil]))

PureNative(name, args) ==
    Bind(Len(args), LAMBDA n :
    CASE name = "+" ->
           IF ~intListOk(args) THEN PErr("non-integer found")
           ELSE POk(Integer(IntFold("+", 0, args, 1)))
      [] name = "-" ->
           IF ~intListOk(args) THEN PErr("non-integer found")
           ELSE IF n = 0 THEN PPanic
           ELSE IF n = 1 THEN POk(GoInt64(-args[1].n))
           ELSE POk(Integer(IntFold("-", args[1].n, args, 2)))
      [] name = "*" ->
           IF ~intListOk(args) THEN PErr("non-integer found")
           ELSE POk(Integer(IntFold("*", 1, args, 1)))
      [] name = "/" ->
           IF ~intListOk(args) THEN PErr("non-integer found")
           ELSE IF n = 0 THEN PPanic
           ELSE IF n = 1 THEN (IF args[1].n = 0 THEN PPanic ELSE POk(Integer(Quot(1, args[1].n))))
           ELSE IF \E i \in 2..n : args[i].n = 0 THEN PPanic
           ELSE POk(Integer(IntFold("/", args[1].n, args, 2)))
      [] name = "list" -> POk(List(args))
      [] name = "list?" ->
           IF n # 1 THEN PErr("list? requires 1 arg") ELSE POk(Boolean(args[1].t = "list"))
      [] name = "empty?" -> IF n = 0 THEN PPanic ELSE Empty(args[1])
      [] name = "count" ->
           IF n # 1 THEN PErr("count requires 1 arg")
           ELSE IF ~IsCounted(args[1]) THEN PErr("count requires a countable collection")
           ELSE IF IsNilImm(args[1]) THEN PPanic
           ELSE POk(Integer(Count(args[1])))
      [] name = "=" -> IF n = 0 THEN POk(Boolean(TRUE)) ELSE EqualsLoop(args[1], args, 2)
      [] name = ">=" ->
           IF n = 0 THEN PErr(">= requires at least one arg")
           ELSE CompareLoop(args[1], args, 2, {-1})
      [] name = ">" ->
           IF n = 0 THEN PErr("> requires at least one arg")
           ELSE CompareLoop(args[1], args, 2, {-1, 0})
      [] name = "<=" ->
           IF n = 0 THEN PErr("<= requires at least one arg")
           ELSE CompareLoop(args[1], args, 2, {1})
      [] name = "<" ->
           IF n = 0 THEN PErr("< requires at least one arg")
           ELSE CompareLoop(args[1], args, 2, {1, 0})
      [] name = "seq" -> IF n = 0 THEN PPanic ELSE RuntimeSeq(args[1])
      [] name = "first" ->
           IF n = 0 THEN PPanic
           ELSE Bind(RuntimeSeq(args[1]), LAMBDA s :
                IF s.k # "ok" THEN s
                ELSE Bind(SeqNext(s.v), LAMBDA x :
                     IF x.e THEN POk(NilV) ELSE POk(x.h)))
      [] name = "rest" ->
           IF n = 0 THEN PPanic
           ELSE Bind(RuntimeSeq(args[1]), LAMBDA s :
                IF s.k # "ok" THEN s
                ELSE Bind(SeqNext(s.v), LAMBDA x :
                     IF x.e THEN POk(NilImmList) ELSE POk(x.tl)))
      [] name = "take" -> IF n < 2 THEN PPanic ELSE TakeDrop(args[1], args[2])
      [] name = "cons" ->
           IF n < 2 THEN PPanic
           ELSE Bind(RuntimeSeq(args[2]), LAMBDA s :
                IF s.k # "ok" THEN s ELSE POk(ConsCell(args[1], s.v)))
      [] name = "concat" -> Concat(args)
      [] name = "conj" -> IF n = 0 THEN PPanic ELSE Conj(args[1], Tail(args))
      [] name = "nth" -> IF n < 2 THEN PPanic ELSE Nth(args[1], args[2])
      [] name = "throw" ->
           IF n = 0 THEN PPanic ELSE [k |-> "err", v |-> MalError(args[1])]
      [] name = "symbol?" -> IF n = 0 THEN PPanic ELSE POk(Boolean(args[1].t = "sym"))
      [] name = "nil?" -> IF n = 0 THEN PPanic ELSE POk(Boolean(args[1].t = "nil"))
      [] name = "sequential?" -> IF n = 0 THEN PPanic ELSE POk(Boolean(IsSequential(args[1])))
      [] name = "vector?" -> IF n = 0 THEN PPanic ELSE POk(Boolean(args[1].t = "vec"))
      [] name = "map?" -> IF n = 0 THEN PPanic ELSE POk(Boolean(args[1].t = "map"))
      [] name = "fn?" ->
           IF n = 0 THEN PPanic ELSE POk(Boolean(args[1].t = "fn" /\ ~args[1].macro))
      [] name = "macro?" ->
           IF n = 0 THEN PPanic ELSE POk(Boolean(args[1].t = "fn" /\ args[1].macro))
      [] name = "vector" -> POk(Vector(<<GoSlice(args)>>))
      [] name = "hash-map" -> IF n % 2 # 0 THEN PErr("invalid") ELSE POk(NewMap(args))
      [] name = "assoc" ->
           IF n = 0 THEN PPanic
           ELSE IF args[1].t # "map" THEN PErr("invalid")
           ELSE IF n % 2 # 1 THEN PErr("invalid")
           ELSE POk(Map(AssocLoop(args[1].entries, args, 2)))
      [] name = "dissoc" ->
           IF n = 0 THEN PPanic
           ELSE IF args[1].t # "map" THEN PErr("invalid")
           ELSE POk(Map(DissocLoop(args[1].entries, args, 2)))
      [] name = "get" ->
           IF n < 2 THEN PPanic
           ELSE POk(Get(args[1], args[2], IF n = 2 THEN NilV ELSE args[3]))
      [] name = "contains?" -> IF n < 2 THEN PPanic ELSE POk(Contains(args[1], args[2]))
      [] name = "keys" -> IF n = 0 THEN PPanic ELSE KeysVals(args[1], 1)
      [] name = "vals" -> IF n = 0 THEN PPanic ELSE KeysVals(args[1], 2)
      [] OTHER -> PPanic)

(***************************************************************************)
(* Package main: the evaluator.  EVAL(evalEnv, form, H, d, fuel) is the    *)
(* activation of EVAL at depth d of the Go call stack (the number of EVAL  *)
(* activations on the stack, this one included); an iteration of its loop  *)
(* keeps d and a nested call has d + 1.  The result carries the heap after *)
(* the evaluation; H.depth records the largest depth any activation has    *)
(* reached since rep called EVAL.  fuel bounds the length of every chain   *)
(* of calls and iterations.  EvalIter is one iteration of the loop: it     *)
(* returns, or it continues.                                               *)
(***************************************************************************)
\* The budget of the model: the length of a chain of iterations and calls,
\* and the number of nested activations of EVAL the stack has room for.
MaxFuel == 14
MaxDepth == 6

FromPure(p, H) == [k |-> p.k, v |-> p.v, H |-> H]

\* isPair: "t", "f" or "panic"
isPair(form) ==
    IF ~(IsSeq(form) \/ IsSequential(form)) THEN "f"
    ELSE Bind(Empty(form), LAMBDA e :
         IF e.k = "panic" THEN "panic"
         ELSE IF e.k = "ok" /\ ~e.v.b THEN "t" ELSE "f")

QQPanic == [t |-> "qqpanic"]

RECURSIVE quasiquote(_)
quasiquote(form) ==
    IF isPair(form) = "panic" THEN QQPanic
    ELSE IF isPair(form) = "f" THEN List(<<Symbol("quote"), form>>)
    ELSE Bind(SeqNext(RuntimeSeq(form).v), LAMBDA x :
         Bind(x.h, LAMBDA head :
         Bind(x.tl, LAMBDA tail :
         IF head.t = "sym" /\ head.name = "unquote"
         THEN Bind(SeqNext(tail), LAMBDA y : IF y.p THEN QQPanic ELSE y.h)
         ELSE IF isPair(head) = "panic" THEN QQPanic
         ELSE Bind(IF isPair(head) = "t" THEN SeqNext(RuntimeSeq(head).v)
                        ELSE NextEmpty, LAMBDA ix :
              IF isPair(head) = "t" /\ ix.h.t = "sym" /\ ix.h.name = "splice-unquote"
              THEN Bind(SeqNext(ix.tl), LAMBDA iy :
                   Bind(quasiquote(tail), LAMBDA q :
                   IF iy.p \/ q = QQPanic THEN QQPanic
                   ELSE List(<<Symbol("concat"), iy.h, q>>)))
              ELSE Bind(quasiquote(head), LAMBDA qh :
                   Bind(quasiquote(tail), LAMBDA qt :
                   IF qh = QQPanic \/ qt = QQPanic THEN QQPanic
                   ELSE List(<<Symbol("cons"), qh, qt>>)))))))

\* isMacroCall: [p, valid, fn, args]
isMacroCall(H, evalEnv, form) ==
    LET no == [p |-> FALSE, valid |-> FALSE, fn |-> GoNil, args |-> GoNil] IN
    IF isPair(form) = "panic" THEN [no EXCEPT !.p = TRUE]
    ELSE IF isPair(form) = "f" THEN no
    ELSE Bind(SeqNext(RuntimeSeq(form).v), LAMBDA x :
         IF x.h.t # "sym" THEN no
         ELSE Bind(EnvGet(H, evalEnv, x.h.name), LAMBDA g :
              IF g.k # "ok" THEN no
              ELSE IF g.v.t # "fn" THEN no
              ELSE [p |-> FALSE, valid |-> g.v.macro, fn |-> g.v, args |-> x.tl]))

RECURSIVE EVAL(_, _, _, _, _), EvalIter(_, _, _, _, _), evalAst(_, _, _, _, _),
          evalItems(_, _, _, _, _, _, _),
          evalEntries(_, _, _, _, _, _, _), macroexpand(_, _, _, _, _),
          CallFn(_, _, _, _, _), Native(_, _, _, _, _), EvalList(_, _, _, _, _),
          EvalLet(_, _, _, _, _, _, _), EvalDo(_, _, _, _, _, _, _),
          EvalTry(_, _, _, _, _), EvalApply(_, _, _, _, _), ApplyFn(_, _, _, _, _),
          MapFnLoop(_, _, _, _, _, _)

\* The loop of evalAst over the items of a List or Vector: [k, v, H, d] with
\* v the evaluated items.
evalItems(evalEnv, items, i, acc, H, d, fuel) ==
    IF i > Len(items) THEN Ok(acc, H)
    ELSE Bind(EVAL(evalEnv, items[i], H, d + 1, fuel - 1), LAMBDA r :
         IF r.k # "ok" THEN r
         ELSE evalItems(evalEnv, items, i + 1, Append(acc, r.v), r.H, d, fuel))

\* The loop of evalAst over the entries of a Map.
evalEntries(evalEnv, entries, i, acc, H, d, fuel) ==
    IF i > Len(entries) THEN Ok(acc, H)
    ELSE Bind(EVAL(evalEnv, entries[i][1], H, d + 1, fuel - 1), LAMBDA k2 :
         IF k2.k # "ok" THEN k2
         ELSE Bind(EVAL(evalEnv, entries[i][2], k2.H, d + 1, fuel - 1), LAMBDA v2 :
              IF v2.k # "ok" THEN v2
              ELSE evalEntries(evalEnv, entries, i + 1, MapSet(acc, k2.v, v2.v),
                                     v2.H, d, fuel)))

evalAst(evalEnv, form, H, d, fuel) ==
    CASE form.t = "sym" -> FromPure(EnvGet(H, evalEnv, form.name), H)
      [] form.t = "list" ->
           IF IsNilImm(form) THEN Panic(H)
           ELSE Bind(evalItems(evalEnv, form.items, 1, <<>>, H, d, fuel), LAMBDA r :
                IF r.k # "ok" THEN r ELSE [r EXCEPT !.v = List(r.v)])
      [] form.t = "vec" ->
           Bind(evalItems(evalEnv, form.items, 1, <<>>, H, d, fuel), LAMBDA r :
           IF r.k # "ok" THEN r ELSE [r EXCEPT !.v = Vector(r.v)])
      [] form.t = "map" ->
           Bind(evalEntries(evalEnv, form.entries, 1, <<>>, H, d, fuel), LAMBDA r :
           IF r.k # "ok" THEN r ELSE [r EXCEPT !.v = Map(r.v)])
      [] OTHER -> Ok(form, H)

\* Function.Fn: the native code, or for a closure the function literal that
\* fn* builds (DeriveEnv, then a nested EVAL of the body).
CallFn(fn, args, H, d, fuel) ==
    IF fuel = 0 THEN Diverge(H)
    ELSE IF IsNative(fn) THEN Native(fn.nat, args, H, d, fuel - 1)
    ELSE Bind(DeriveEnv(H, fn.env, fn.binds, args), LAMBDA e :
         IF e.k # "ok" THEN Err(e.v, H)
         ELSE EVAL(e.env, fn.body, e.H, d + 1, fuel - 1))

macroexpand(evalEnv, form, H, d, fuel) ==
    IF fuel = 0 THEN Diverge(H)
    ELSE Bind(isMacroCall(H, evalEnv, form), LAMBDA m :
         IF m.p THEN Panic(H)
         ELSE IF ~m.valid THEN Ok(form, H)
         ELSE Bind(IntoSlice(m.args), LAMBDA items :
              IF items.k = "panic" THEN Panic(H)
              ELSE IF items.k = "err" THEN Err(items.e, H)
              ELSE Bind(CallFn(m.fn, items.v, H, d, fuel - 1), LAMBDA expanded :
                   IF expanded.k # "ok" THEN expanded
                   ELSE macroexpand(evalEnv, expanded.v, expanded.H, d, fuel - 1))))

\* A let* that keeps all its bindings in one frame.
RECURSIVE EvalLetOneFrame(_, _, _, _, _, _, _)
EvalLetOneFrame(inner, bindings, i, body, H, d, fuel) ==
    IF i > Len(bindings) THEN Continue(inner, body, H)
    ELSE IF bindings[i].t # "sym" THEN Err(GoError("let* binding arg requires a symbol"), H)
    ELSE Bind(EVAL(inner, bindings[i + 1], H, d + 1, fuel - 1), LAMBDA val :
         IF val.k # "ok" THEN val
         ELSE EvalLetOneFrame(inner, bindings, i + 2, body,
                              EnvSet(val.H, inner, bindings[i].name, val.v), d, fuel))

\* The loop of let* over the binding pairs, then the body in the innermost
\* frame, by the next iteration of the EVAL loop.
EvalLet(inner, bindings, i, body, H, d, fuel) ==
    IF i > Len(bindings) THEN Continue(inner, body, H)
    ELSE IF bindings[i].t # "sym" THEN Err(GoError("let* binding arg requires a symbol"), H)
    ELSE Bind(EVAL(inner, bindings[i + 1], H, d + 1, fuel - 1), LAMBDA val :
         IF val.k # "ok" THEN val
         ELSE Bind(DeriveEnv(val.H, inner, <<bindings[i]>>, <<val.v>>), LAMBDA e :
              IF e.k # "ok" THEN Err(e.v, val.H)
              ELSE EvalLet(e.env, bindings, i + 2, body, e.H, d, fuel)))

\* A test for which 0 and the empty string and collections are false too.
condEmptyIsFalse(test) ==
    /\ test # Boolean(FALSE) /\ test # NilV /\ test # Integer(0) /\ test # String("")
    /\ ~(test.t \in {"list", "vec"} /\ test.items = <<>>)
    /\ ~(test.t = "map" /\ test.entries = <<>>)

\* The switch of the if case on the value of the test.
cond(test) == test # Boolean(FALSE) /\ test # NilV

\* A do that goes on after a subform has failed.
RECURSIVE EvalDoAll(_, _, _, _, _, _, _)
EvalDoAll(evalEnv, items, i, forms, H, d, fuel) ==
    IF i > forms THEN Continue(evalEnv, items[forms + 1], H)
    ELSE Bind(EVAL(evalEnv, items[i], H, d + 1, fuel - 1), LAMBDA r :
         IF r.k \in {"panic", "diverge"} THEN r
         ELSE EvalDoAll(evalEnv, items, i + 1, forms, r.H, d, fuel))

\* The loop of do over items[1:forms], then the last form by the next
\* iteration of the EVAL loop.
EvalDo(evalEnv, items, i, forms, H, d, fuel) ==
    IF i > forms THEN Continue(evalEnv, items[forms + 1], H)
    ELSE Bind(EVAL(evalEnv, items[i], H, d + 1, fuel - 1), LAMBDA r :
         IF r.k # "ok" THEN r
         ELSE EvalDo(evalEnv, items, i + 1, forms, r.H, d, fuel))

\* case try*.  The err that the catch parameter is bound to is the variable
\* that "catchItems, err := runtime.IntoSlice(...)" has just assigned, so it
\* is the error of IntoSlice, which is nil here, not the error of tryBody.
EvalTry(evalEnv, items, H, d, fuel) ==
    IF Len(items) < 2 THEN Panic(H)
    ELSE Bind(EVAL(evalEnv, items[2], H, d + 1, fuel - 1), LAMBDA result :
         IF result.k # "err" THEN result
         ELSE IF Len(items) = 2 THEN result
         ELSE IF ~IsApplicable(items[3])
              THEN Err(GoError("Invalid try* form"), result.H)
         ELSE Bind(IntoSlice(items[3]), LAMBDA catchItems :
              IF catchItems.k = "panic" THEN Panic(result.H)
              ELSE IF catchItems.k = "err" THEN Err(catchItems.e, result.H)
              ELSE IF Len(catchItems.v) = 0 THEN Panic(result.H)
              ELSE IF catchItems.v[1] # Symbol("catch*")
                   THEN Err(GoError("Invalid try* form"), result.H)
              ELSE IF Len(catchItems.v) < 2 THEN Panic(result.H)
              ELSE Bind(DeriveEnv(result.H, evalEnv, <<catchItems.v[2]>>, <<catchItems.e>>),
                        LAMBDA e :
                   IF e.k # "ok" THEN Err(e.v, result.H)
                   ELSE IF Len(catchItems.v) < 3 THEN Panic(e.H)
                   ELSE EVAL(e.env, catchItems.v[3], e.H, d + 1, fuel - 1))))

\* A closure applied by a call of its Fn, which nests an activation of EVAL.
ApplyFnByCall(fn, args, H, d, fuel) == CallFn(fn, args, H, d, fuel)

\* An application that derives the frame of the body from the global frame.
ApplyFnGlobal(fn, args, H, d, fuel) ==
    IF IsNative(fn) THEN Native(fn.nat, args, H, d, fuel - 1)
    ELSE Bind(DeriveEnv(H, GlobalEnv, fn.binds, args), LAMBDA e :
         IF e.k # "ok" THEN Err(e.v, H)
         ELSE Continue(e.env, fn.body, e.H))

\* The end of the default case: a native function is called; for a closure
\* the loop continues with its body in a frame derived from its Env.
ApplyFn(fn, args, H, d, fuel) ==
    IF IsNative(fn) THEN Native(fn.nat, args, H, d, fuel - 1)
    ELSE Bind(DeriveEnv(H, fn.env, fn.binds, args), LAMBDA e :
         IF e.k # "ok" THEN Err(e.v, H)
         ELSE Continue(e.env, fn.body, e.H))

\* default: the application of a function
EvalApply(evalEnv, value, H, d, fuel) ==
    Bind(evalAst(evalEnv, value, H, d, fuel), LAMBDA evaluated :
    IF evaluated.k # "ok" THEN evaluated
    ELSE IF ~IsApplicable(evaluated.v)
         THEN Err(GoError("List did not eval to list"), evaluated.H)
    ELSE Bind(IntoSlice(evaluated.v), LAMBDA iitems :
         IF iitems.k = "panic" THEN Panic(evaluated.H)
         ELSE IF iitems.k = "err" THEN Err(iitems.e, evaluated.H)
         ELSE IF iitems.v[1].t # "fn"
              THEN Err(GoError("No function found in first position"),
                       evaluated.H)
         ELSE ApplyFn(iitems.v[1], Tail(iitems.v), evaluated.H, d, fuel)))

\* The switch of EVAL on an Applicable form, after macro expansion.
EvalList(evalEnv, value, H, d, fuel) ==
    Bind(IntoSlice(value), LAMBDA s :
    Bind(s.v, LAMBDA items :
    Bind(Len(items), LAMBDA n :
    IF s.k = "panic" THEN Panic(H)
    ELSE IF s.k = "err" THEN Err(s.e, H)
    ELSE IF n = 0 THEN Ok(value, H)
    ELSE
    CASE items[1] = Symbol("def!") ->
           IF n # 3 THEN Err(GoError("def! requires 2 args"), H)
           ELSE IF items[2].t # "sym" THEN Err(GoError("def! requires a symbol arg"), H)
           ELSE Bind(EVAL(evalEnv, items[3], H, d + 1, fuel - 1), LAMBDA val :
                IF val.k # "ok" THEN val
                ELSE [val EXCEPT !.H = EnvSet(val.H, evalEnv, items[2].name, val.v)])
      [] items[1] = Symbol("defmacro!") ->
           IF n # 3 THEN Err(GoError("defmacro! requires 2 args"), H)
           ELSE IF items[2].t # "sym" THEN Err(GoError("defmacro! requires a symbol arg"), H)
           ELSE Bind(EVAL(evalEnv, items[3], H, d + 1, fuel - 1), LAMBDA val :
                IF val.k # "ok" THEN val
                ELSE IF val.v.t # "fn"
                     THEN Err(GoError("defmacro! requires a macro arg"), val.H)
                ELSE Bind([val.v EXCEPT !.macro = TRUE], LAMBDA fn :
                     [val EXCEPT !.v = fn, !.H = EnvSet(val.H, evalEnv, items[2].name, fn)]))
      [] items[1] = Symbol("let*") ->
           IF n # 3 THEN Err(GoError("let* requires 2 args"), H)
           ELSE IF ~IsSequential(items[2])
                THEN Err(GoError("let* requires a binding sequential arg"), H)
           ELSE Bind(IntoSlice(items[2]), LAMBDA bindings :
                IF bindings.k = "panic" THEN Panic(H)
                ELSE IF Len(bindings.v) % 2 # 0
                     THEN Err(GoError("let* requires an even list of bindings"), H)
                ELSE Bind(DeriveEnv(H, evalEnv, <<>>, <<>>), LAMBDA inner :
                     EvalLet(inner.env, bindings.v, 1, items[3], inner.H, d, fuel)))
      [] items[1] = Symbol("do") ->
           IF n - 1 = 0 THEN Ok(NilV, H)
           ELSE EvalDo(evalEnv, items, 2, n - 1, H, d, fuel)
      [] items[1] = Symbol("if") ->
           IF n < 3 \/ n > 4 THEN Err(GoError("if requires 2 or 3 args"), H)
           ELSE Bind(EVAL(evalEnv, items[2], H, d + 1, fuel - 1), LAMBDA test :
                IF test.k # "ok" THEN test
                ELSE IF cond(test.v)
                     THEN Continue(evalEnv, items[3], test.H)
                ELSE IF n = 4
                     THEN Continue(evalEnv, items[4], test.H)
                ELSE Ok(NilV, test.H))
      [] items[1] = Symbol("fn*") ->
           IF n # 3 THEN Err(GoError("fn* requires 2 args"), H)
           ELSE IF ~IsSequential(items[2])
                THEN Err(GoError("fn* requires a sequential args arg"), H)
           ELSE Bind(IntoSlice(items[2]), LAMBDA binds :
                IF binds.k = "panic" THEN Panic(H)
                ELSE IF binds.k = "err" THEN Err(binds.e, H)
                ELSE Ok(Closure(binds.v, items[3], evalEnv), H))
      [] items[1] = Symbol("quote") ->
           IF n # 2 THEN Err(GoError("quote requires 1 arg"), H)
           ELSE Ok(items[2], H)
      [] items[1] = Symbol("quasiquote") ->
           IF n < 2 THEN Panic(H)
           ELSE IF quasiquote(items[2]) = QQPanic THEN Panic(H)
           ELSE Continue(evalEnv, quasiquote(items[2]), H)
      [] items[1] = Symbol("macroexpand") ->
           IF n < 2 THEN Panic(H)
           ELSE macroexpand(evalEnv, items[2], H, d, fuel - 1)
      [] items[1] = Symbol("try*") -> EvalTry(evalEnv, items, H, d, fuel)
      [] OTHER -> EvalApply(evalEnv, value, H, d, fuel))))

EvalIter(evalEnv, form, H0, d, fuel) ==
    Bind([H0 EXCEPT !.depth = Max(@, d)], LAMBDA H :
    Bind(IntoSlice(form), LAMBDA s :
    Bind(macroexpand(evalEnv, List(s.v), H, d, fuel - 1), LAMBDA expanded :
    CASE fuel <= 0 \/ d > MaxDepth -> Diverge(H)
      [] fuel > 0 /\ d <= MaxDepth /\ ~IsApplicable(form) -> evalAst(evalEnv, form, H, d, fuel)
      [] fuel > 0 /\ d <= MaxDepth /\ IsApplicable(form) /\ s.k = "panic" -> Panic(H)
      [] fuel > 0 /\ d <= MaxDepth /\ IsApplicable(form) /\ s.k = "err" -> Err(s.e, H)
      [] fuel > 0 /\ d <= MaxDepth /\ IsApplicable(form) /\ s.k = "ok" /\ Len(s.v) = 0 ->
           Ok(List(<<>>), H)
      [] fuel > 0 /\ d <= MaxDepth /\ IsApplicable(form) /\ s.k = "ok" /\ Len(s.v) > 0
           /\ expanded.k # "ok" -> expanded
      [] fuel > 0 /\ d <= MaxDepth /\ IsApplicable(form) /\ s.k = "ok" /\ Len(s.v) > 0
           /\ expanded.k = "ok" /\ ~IsApplicable(expanded.v) ->
           evalAst(evalEnv, expanded.v, expanded.H, d, fuel)
      [] OTHER -> EvalList(evalEnv, expanded.v, expanded.H, d, fuel))))

\* EVAL: the loop, an iteration after the other.
EVAL(evalEnv, form, H, d, fuel) ==
    Bind(EvalIter(evalEnv, form, H, d, fuel), LAMBDA it :
    IF it.k # "continue" THEN it
    ELSE EVAL(it.env, it.form, it.H, d, fuel - 1))

\* The loop of the map built-in.
MapFnLoop(fn, seq, items, H, d, fuel) ==
    Bind(SeqNext(seq), LAMBDA x :
    IF x.p THEN Panic(H)
    ELSE IF x.e THEN Ok(List(items), H)
    ELSE Bind(CallFn(fn, <<x.h>>, H, d, fuel - 1), LAMBDA item :
         IF item.k # "ok" THEN item
         ELSE MapFnLoop(fn, x.tl, Append(items, item.v), item.H, d, fuel)))

\* A Set that writes to a copy of the atom.
AtomSetCopy(H, id, value) == H

\* Arguments of the swap function without the extra arguments of swap!.
swapArgsOldOnly(old, args) == <<old>>

\* swapArgs of swap!: the value of the atom, then the arguments after the
\* function.
swapArgs(old, args) == <<old>> \o SubSeq(args, 3, Len(args))

\* Atom.Set
AtomSet(H, id, value) == [H EXCEPT !.atoms[id] = value]

\* The built-ins that touch an atom or call a function, and eval (set by
\* main); every other built-in is PureNative.
Native(name, args, H, d, fuel) ==
    Bind(Len(args), LAMBDA n :
    CASE name = "atom" ->
           IF n = 0 THEN Panic(H)
           ELSE Bind(NewId(H.atoms), LAMBDA id :
                Ok(Atom(id), [H EXCEPT !.atoms = (id :> args[1]) @@ @]))
      [] name = "atom?" ->
           IF n = 0 THEN Panic(H) ELSE Ok(Boolean(args[1].t = "atom"), H)
      [] name = "deref" ->
           IF n = 0 THEN Panic(H)
           ELSE IF args[1].t # "atom" THEN Err(GoError("deref requires an atom value"), H)
           ELSE Ok(H.atoms[args[1].id], H)
      [] name = "reset!" ->
           IF n = 0 THEN Panic(H)
           ELSE IF args[1].t # "atom" THEN Err(GoError("deref requires an atom value"), H)
           ELSE IF n < 2 THEN Panic(H)
           ELSE Ok(args[2], AtomSet(H, args[1].id, args[2]))
      [] name = "swap!" ->
           IF n = 0 THEN Panic(H)
           ELSE IF args[1].t # "atom" THEN Err(GoError("swap! requires atom value"), H)
           ELSE IF n < 2 THEN Panic(H)
           ELSE IF args[2].t # "fn" THEN Panic(H)
           ELSE Bind(swapArgs(H.atoms[args[1].id], args), LAMBDA fnArgs :
                Bind(CallFn(args[2], fnArgs, H, d, fuel - 1), LAMBDA value :
                IF value.k # "ok" THEN value
                ELSE [value EXCEPT !.H = AtomSet(value.H, args[1].id, value.v)]))
      [] name = "eval" ->
           IF n # 1 THEN Err(GoError("eval requires 1 arg"), H)
           ELSE EVAL(GlobalEnv, args[1], H, d + 1, fuel - 1)
      [] name = "map" ->
           IF n = 0 THEN Panic(H)
           ELSE IF args[1].t # "fn" THEN Err(GoError("Invalid"), H)
           ELSE IF n < 2 THEN Panic(H)
           ELSE Bind(RuntimeSeq(args[2]), LAMBDA s :
                IF s.k # "ok" THEN FromPure(s, H)
                ELSE MapFnLoop(args[1], s.v, <<>>, H, d, fuel))
      [] name = "apply" ->
           IF n < 2 THEN Err(GoError("invalid"), H)
           ELSE IF args[1].t # "fn" THEN Err(GoError("Invalid"), H)
           ELSE Bind(IntoSlice(args[n]), LAMBDA s :
                IF s.k = "panic" THEN Panic(H)
                ELSE IF s.k = "err" THEN Err(s.e, H)
                ELSE CallFn(args[1], SubSeq(args, 2, n - 1) \o s.v, H, d, fuel - 1))
      [] OTHER -> FromPure(PureNative(name, args), H))

(***************************************************************************)
(* The frames and atoms that no value can reach any more are reclaimed by  *)
(* the Go collector; Collect keeps those reachable from the global frame   *)
(* and from the value just returned.                                       *)
(***************************************************************************)
RECURSIVE ValRefs(_)
ValRefs(v) ==
    CASE v.t = "fn" ->
           IF IsNative(v) THEN {} ELSE {<<"env", v.env>>} \cup ValRefs(v.body)
      [] v.t = "atom" -> {<<"atom", v.id>>}
      [] v.t \in {"list", "vec", "slice", "iter", "goslice"} ->
           UNION {ValRefs(v.items[i]) : i \in 1..Len(v.items)}
      [] v.t = "map" ->
           UNION {ValRefs(v.entries[i][1]) \cup ValRefs(v.entries[i][2]) :
                  i \in 1..Len(v.entries)}
      [] v.t = "cons" -> ValRefs(v.head) \cup ValRefs(v.tail)
      [] v.t = "concat" -> UNION {ValRefs(v.seqs[i]) : i \in 1..Len(v.seqs)}
      [] v.t = "malerr" -> ValRefs(v.reason)
      [] OTHER -> {}

ObjRefs(H, x) ==
    IF x[1] = "env"
    THEN (IF H.envs[x[2]].outer = 0 THEN {} ELSE {<<"env", H.envs[x[2]].outer>>})
         \cup UNION {ValRefs(H.envs[x[2]].b[n]) : n \in DOMAIN H.envs[x[2]].b}
    ELSE ValRefs(H.atoms[x[2]])

RECURSIVE Reach(_, _)
Reach(H, S) ==
    Bind(S \cup UNION {ObjRefs(H, x) : x \in S}, LAMBDA T :
    IF T = S THEN S ELSE Reach(H, T))

Collect(H, v) ==
    Bind(Reach(H, {<<"env", GlobalEnv>>} \cup ValRefs(v)), LAMBDA live :
    [envs |-> [id \in {i \in DOMAIN H.envs : <<"env", i>> \in live} |-> H.envs[id]],
     atoms |-> [id \in {i \in DOMAIN H.atoms : <<"atom", i>> \in live} |-> H.atoms[id]],
     depth |-> 0])

(***************************************************************************)
(* The global environment: core.BuildEnv, then the bindings main adds.     *)
(***************************************************************************)
L(items) == List(items)
S(name) == Symbol(name)
I(n) == Integer(n)
Q(form) == List(<<Symbol("quote"), form>>)

CoreNames ==
    {"+", "-", "*", "/", "list", "list?", "empty?", "count", "=", ">=", ">", "<=", "<",
     "atom", "atom?", "deref", "reset!", "swap!", "seq", "first", "rest", "take",
     "cons", "concat", "conj", "nth", "throw", "symbol?", "nil?", "sequential?", "vector?",
     "map?", "map", "apply", "vector", "hash-map", "assoc", "dissoc", "get",
     "contains?", "keys", "vals", "fn?", "macro?"}

\* core.BuildEnv
BuildEnv ==
    [envs |-> (GlobalEnv :> [outer |-> 0, b |-> [n \in CoreNames |-> NativeFn(n)]]),
     atoms |-> [n \in {} |-> GoNil],
     depth |-> 0]


\* (def! not (fn* (a) (if a false true)))
NotForm ==
    L(<<S("def!"), S("not"),
        L(<<S("fn*"), L(<<S("a")>>), L(<<S("if"), S("a"), Boolean(FALSE), Boolean(TRUE)>>)>>)>>)

\* (defmacro! cond (fn* (& xs) (if (> (count xs) 0) (list 'if (first xs)
\*   (if (> (count xs) 1) (nth xs 1) (throw "odd number of forms to cond"))
\*   (cons 'cond (rest (rest xs)))))))
CondForm ==
    L(<<S("defmacro!"), S("cond"),
        L(<<S("fn*"), L(<<S("&"), S("xs")>>),
            L(<<S("if"), L(<<S(">"), L(<<S("count"), S("xs")>>), I(0)>>),
                L(<<S("list"), Q(S("if")), L(<<S("first"), S("xs")>>),
                    L(<<S("if"), L(<<S(">"), L(<<S("count"), S("xs")>>), I(1)>>),
                        L(<<S("nth"), S("xs"), I(1)>>),
                        L(<<S("throw"), String("odd number of forms to cond")>>)>>),
                    L(<<S("cons"), Q(S("cond")),
                        L(<<S("rest"), L(<<S("rest"), S("xs")>>)>>)>>)>>)>>)>>)>>)

\* main, up to the REPL
MainEnv ==
    LET h0 == BuildEnv
        h1 == EnvSet(h0, GlobalEnv, "*host-language*", String("glimpse"))
        h2 == EnvSet(h1, GlobalEnv, "eval", NativeFn("eval"))
        h3 == EVAL(GlobalEnv, NotForm, h2, 1, MaxFuel).H
        h4 == EVAL(GlobalEnv, CondForm, h3, 1, MaxFuel).H
    IN [EnvSet(h4, GlobalEnv, "*ARGV*", NilImmList) EXCEPT !.depth = 0]

(***************************************************************************)
(* The inputs of the REPL sessions, by scenario.                           *)
(***************************************************************************)
Fn(params, body) == L(<<S("fn*"), L(params), body>>)
Def(name, form) == L(<<S("def!"), S(name), form>>)
DefMacro(name, form) == L(<<S("defmacro!"), S(name), form>>)
Call1(name, arg) == L(<<S(name), arg>>)
Let(bindings, body) == L(<<S("let*"), L(bindings), body>>)
Do(forms) == L(<<S("do")>> \o forms)

MaxCount == 5
MaxIters == 3 * MaxCount + 6
MaxFrames == 5

\* (def! countdown (fn* (n) (if (= n 0) 0 TAIL))), with the recursive call
\* in the tail position of if, of do and of let*.
CountdownDef(tail) ==
    Def("countdown", Fn(<<S("n")>>, L(<<S("if"), L(<<S("="), S("n"), I(0)>>), I(0), tail>>)))
CountdownIf == CountdownDef(Call1("countdown", L(<<S("-"), S("n"), I(1)>>)))
CountdownDo ==
    CountdownDef(Do(<<S("n"), Call1("countdown", L(<<S("-"), S("n"), I(1)>>))>>))
CountdownLet ==
    CountdownDef(Let(<<S("m"), L(<<S("-"), S("n"), I(1)>>)>>, Call1("countdown", S("m"))))
CountdownCall(n) == Call1("countdown", I(n))
CountdownCalls == {CountdownCall(n) : n \in 0..MaxCount}

\* try*: the values thrown, and the protected forms with the failure each
\* ends by (fails = FALSE: the value it returns).
ThrownValues == {String("boom"), I(7)}
Catch(param, body) == L(<<S("catch*"), S(param), body>>)
Try(a, b) == L(<<S("try*"), a, b>>)
\* (try* (throw v) (catch* e e))
TryThrow(v) == Try(Call1("throw", v), Catch("e", S("e")))
\* (try* (throw v) (catch* e (= e v)))
TryThrowEq(v) == Try(Call1("throw", v), Catch("e", L(<<S("="), S("e"), v>>)))

Protected ==
    {[form |-> Call1("throw", I(7)), fails |-> TRUE, v |-> MalError(I(7))],
     [form |-> S("zz"), fails |-> TRUE, v |-> Undefined("zz")],
     [form |-> L(<<Fn(<<S("a")>>, S("a"))>>), fails |-> TRUE, v |-> GoError("no expr for bind")],
     [form |-> L(<<I(7), I(8)>>), fails |-> TRUE,
      v |-> GoError("No function found in first position")],
     [form |-> L(<<S("+"), I(1), I(2)>>), fails |-> FALSE, v |-> I(3)]}

\* A built-in applied to too few arguments: (first)
TooFewArgs == L(<<S("first")>>)

\* (let* (c (atom 0)) (list (try* a (catch* e (do (swap! c + 1) e))) (deref c))):
\* what try* gives, and how many times the catch body was evaluated.
TryCount(a) ==
    Let(<<S("c"), Call1("atom", I(0))>>,
        L(<<S("list"),
            Try(a, Catch("e", Do(<<L(<<S("swap!"), S("c"), S("+"), I(1)>>), S("e")>>))),
            Call1("deref", S("c"))>>))
\* (try* a)
TryNoCatch(a) == L(<<S("try*"), a>>)

\* Forms with too few operands, built-ins with too few arguments, and a
\* division by zero; alone and under a try* with a catch clause.
Malformed ==
    {L(<<S("quasiquote")>>), L(<<S("macroexpand")>>), L(<<S("try*")>>),
     Try(Call1("throw", I(7)), L(<<S("catch*"), S("e")>>)),
     Try(Call1("throw", I(7)), L(<<S("catch*")>>)),
     L(<<S("first")>>), L(<<S("/"), I(1), I(0)>>), L(<<S("deref")>>),
     L(<<S("reset!"), Call1("atom", I(1))>>)}
Guarded(form) == Try(form, Catch("e", I(0)))

\* Macros that return a list, a cons cell, a concatenation and what
\* quasiquote builds, each expanding (m x) to (+ x 1); m2, which expands to
\* a call of ml; and mn, which expands to what rest gives for an empty list.
\* (do (defmacro! ml (fn* (x) (list '+ x 1)))
\*     (defmacro! mc (fn* (x) (cons '+ (list x 1))))
\*     (defmacro! mq (fn* (x) (concat (list '+) (list x 1))))
\*     (defmacro! mqq (fn* (x) (quasiquote (+ (unquote x) 1))))
\*     (defmacro! mn (fn* () (rest ()))))
DefMacros ==
    Do(<<DefMacro("ml", Fn(<<S("x")>>, L(<<S("list"), Q(S("+")), S("x"), I(1)>>))),
         DefMacro("mc", Fn(<<S("x")>>,
                           L(<<S("cons"), Q(S("+")), L(<<S("list"), S("x"), I(1)>>)>>))),
         DefMacro("mq", Fn(<<S("x")>>,
                           L(<<S("concat"), L(<<S("list"), Q(S("+"))>>),
                               L(<<S("list"), S("x"), I(1)>>)>>))),
         DefMacro("mqq", Fn(<<S("x")>>,
                            L(<<S("quasiquote"),
                                L(<<S("+"), L(<<S("unquote"), S("x")>>), I(1)>>)>>))),
         DefMacro("mn", Fn(<<>>, L(<<S("rest"), L(<<>>)>>)))>>)
\* (defmacro! m2 (fn* (x) (list 'ml x)))
DefM2 == DefMacro("m2", Fn(<<S("x")>>, L(<<S("list"), Q(S("ml")), S("x")>>)))

MacroCalls ==
    {Call1("ml", I(2)), Call1("mc", I(2)), Call1("mq", I(2)), Call1("mqq", I(2)),
     Call1("m2", I(2)), L(<<S("mn")>>)}
\* Forms that are no macro call: not a sequence, empty, a head that is not
\* a symbol, an unbound head, a head bound to a function.
NoMacroCalls ==
    {I(5), S("ml"), L(<<>>), L(<<Fn(<<>>, I(1))>>), Call1("zz", I(1)),
     L(<<S("+"), I(1), I(2)>>), Vector(<<I(1), S("ml")>>)}
Macroexpand(form) == L(<<S("macroexpand"), form>>)

\* Frames: shadowing by let* and by parameters, def! in a derived frame,
\* and closures that keep a let* frame alive.
\* (let* (x 1) (let* (x 2 y 3) (+ x y)))
LetShadow ==
    Let(<<S("x"), I(1)>>, Let(<<S("x"), I(2), S("y"), I(3)>>, L(<<S("+"), S("x"), S("y")>>)))
\* (def! x 9)
DefX == Def("x", I(9))
\* ((fn* (x) (let* (y x) (do (def! z 5) (+ x y z)))) 4)
DefInCall ==
    L(<<Fn(<<S("x")>>,
           Let(<<S("y"), S("x")>>,
               Do(<<Def("z", I(5)), L(<<S("+"), S("x"), S("y"), S("z")>>)>>))),
        I(4)>>)
\* (let* (w 1) (let* (v 2) (do (def! w 3) (+ w v))))
DefInLet ==
    Let(<<S("w"), I(1)>>,
        Let(<<S("v"), I(2)>>, Do(<<Def("w", I(3)), L(<<S("+"), S("w"), S("v")>>)>>)))
\* (def! g (let* (x 1) (list (fn* (y) (do (def! x y) x)) (fn* () x))))
DefG ==
    Def("g", Let(<<S("x"), I(1)>>,
                 L(<<S("list"), Fn(<<S("y")>>, Do(<<Def("x", S("y")), S("x")>>)),
                     Fn(<<>>, S("x"))>>)))
\* ((first g) 3)
CallSetter == L(<<Call1("first", S("g")), I(3)>>)
\* ((nth g 1))
CallGetter == L(<<L(<<S("nth"), S("g"), I(1)>>)>>)
\* (let* (q zz) 1)
LetUnbound == Let(<<S("q"), S("zz")>>, I(1))
EnvNames == {"x", "y", "z", "w", "v", "g", "zz", "+"}

\* Closures and their callers.
\* (def! x 10), (def! x 20)
DefGlobalX == {Def("x", I(10)), Def("x", I(20))}
\* (def! f (let* (x 1) (fn* () x)))
DefF == Def("f", Let(<<S("x"), I(1)>>, Fn(<<>>, S("x"))))
\* (def! h (let* (x 1) (fn* (y) (+ x y))))
DefH == Def("h", Let(<<S("x"), I(1)>>, Fn(<<S("y")>>, L(<<S("+"), S("x"), S("y")>>))))
\* (f), (let* (x 2) (f)), ((fn* (x) (f)) 3), (let* (x 2) (let* (x 3) (f)))
CallsOfF ==
    {L(<<S("f")>>), Let(<<S("x"), I(2)>>, L(<<S("f")>>)),
     L(<<Fn(<<S("x")>>, L(<<S("f")>>)), I(3)>>),
     Let(<<S("x"), I(2)>>, Let(<<S("x"), I(3)>>, L(<<S("f")>>)))}
\* (let* (x 5) (h x)), ((fn* (x) (h x)) 5)
CallsOfH ==
    {Let(<<S("x"), I(5)>>, Call1("h", S("x"))),
     L(<<Fn(<<S("x")>>, Call1("h", S("x"))), I(5)>>)}

\* Templates of quasiquote.
MaxTemplate == 3
Unquote(e) == L(<<S("unquote"), e>>)
SpliceUnquote(e) == L(<<S("splice-unquote"), e>>)
Quasiquote(t) == L(<<S("quasiquote"), t>>)
\* 1, a, (7 a), [7 a], (unquote (+ 1 2)), (splice-unquote (list 2 3)),
\* (splice-unquote (list)), unquote
TemplateElems ==
    {I(1), S("a"), L(<<I(7), S("a")>>), Vector(<<I(7), S("a")>>),
     Unquote(L(<<S("+"), I(1), I(2)>>)),
     SpliceUnquote(L(<<S("list"), I(2), I(3)>>)), SpliceUnquote(L(<<S("list")>>)),
     S("unquote")}
Templates ==
    {t \in UNION {[1..n -> TemplateElems] : n \in 1..MaxTemplate} : t[1] # S("unquote")}
\* (1 2 (unquote (+ 1 2)) 4) and (1 (splice-unquote (list 2 3)) 4)
TemplateUnquote == <<I(1), I(2), Unquote(L(<<S("+"), I(1), I(2)>>)), I(4)>>
TemplateSplice == <<I(1), SpliceUnquote(L(<<S("list"), I(2), I(3)>>)), I(4)>>

\* Forms that are no non-empty list: scalars, nil, (), maps and vectors.
MaxVector == 2
VectorElems == {I(1), S("a"), Unquote(L(<<S("+"), I(1), I(2)>>))}
VectorForms == {Vector(t) : t \in UNION {[1..n -> VectorElems] : n \in 0..MaxVector}}
NonPairForms ==
    {I(0), I(1), String(""), String("s"), S("a"), S("unquote"), Keyword("k"), NilV,
     L(<<>>), Map(<<>>), Map(<<<<Keyword("k"), I(1)>>>>)} \cup VectorForms

\* Sequences built in six ways, with the items they hold.
SeqContents == {<<>>, <<I(2)>>, <<I(2), I(3)>>, <<I(3), I(2)>>}
Items1(c) == [form |-> L(<<S("list")>> \o c), items |-> c]
Items2(c) == [form |-> Vector(c), items |-> c]
\* (cons c1 (list c2 ..))
Items3(c) == [form |-> L(<<S("cons"), c[1], L(<<S("list")>> \o Tail(c))>>), items |-> c]
\* (concat (list c1) (list c2 ..)), (concat (list) (list))
Items4(c) ==
    [form |-> L(<<S("concat"), L(<<S("list")>> \o (IF c = <<>> THEN <<>> ELSE <<c[1]>>)),
                  L(<<S("list")>> \o (IF c = <<>> THEN <<>> ELSE Tail(c)))>>),
     items |-> c]
\* (rest (list 1 c1 ..))
Items5(c) == [form |-> Call1("rest", L(<<S("list"), I(1)>> \o c)), items |-> c]
\* (take n (list c1 .. 9))
Items6(c) ==
    [form |-> L(<<S("take"), I(Len(c)), L(<<S("list")>> \o c \o <<I(9)>>)>>), items |-> c]
SeqExprs ==
    {Items1(c) : c \in SeqContents} \cup {Items2(c) : c \in SeqContents}
    \cup {Items3(c) : c \in SeqContents \ {<<>>}} \cup {Items4(c) : c \in SeqContents}
    \cup {Items5(c) : c \in SeqContents} \cup {Items6(c) : c \in SeqContents}
\* (let* (a <a> b <b>) (= a b))
EqCall(a, b) == Let(<<S("a"), a, S("b"), b>>, L(<<S("="), S("a"), S("b")>>))

\* Maps and vectors built in three ways each.
PairLists == {<<>>, <<Keyword("a"), I(1)>>, <<Keyword("a"), I(1), Keyword("b"), I(2)>>}
\* (hash-map k1 v1 ..)
HashMapCall(kv) == L(<<S("hash-map")>> \o kv)
\* (assoc (hash-map) k1 v1 ..)
AssocAll(kv) == L(<<S("assoc"), L(<<S("hash-map")>>)>> \o kv)
\* (assoc (assoc (hash-map) k1 v1) k2 v2)
RECURSIVE AssocEach(_, _)
AssocEach(kv, n) ==
    IF n = 0 THEN L(<<S("hash-map")>>)
    ELSE L(<<S("assoc"), AssocEach(kv, n - 1), kv[2 * n - 1], kv[2 * n]>>)
MapBuilds(kv) == {HashMapCall(kv), AssocAll(kv), AssocEach(kv, Len(kv) \div 2)}
ItemLists == {<<>>, <<I(1)>>, <<I(1), I(2)>>}
\* (vector v1 ..)
VectorCall(c) == L(<<S("vector")>> \o c)
\* (conj [] v1 ..)
ConjAll(c) == L(<<S("conj"), Vector(<<>>)>> \o c)
VectorBuilds(c) == {VectorCall(c), Vector(c), ConjAll(c)}
GetCall(m, k) == L(<<S("get"), m, k>>)
BuildPrograms ==
    UNION {{EqCall(x, y) : x, y \in MapBuilds(kv)} : kv \in PairLists}
    \cup UNION {{GetCall(x, kv[2 * i - 1]) : x \in MapBuilds(kv), i \in 1..(Len(kv) \div 2)} :
                kv \in PairLists}
    \cup UNION {{EqCall(x, y) : x, y \in VectorBuilds(c)} : c \in ItemLists}
    \cup UNION {{Call1("count", x) : x \in VectorBuilds(c)} : c \in ItemLists}

\* Atoms: two cells a and b, and c, a second reference to the cell of a.
AtomRefs == {S("a"), S("b"), S("c")}
\* (do (def! a (atom 1)) (def! b (atom 1)) (def! c a)), (def! b (atom 2))
DefAtoms ==
    {Do(<<Def("a", Call1("atom", I(1))), Def("b", Call1("atom", I(1))), Def("c", S("a"))>>),
     Def("b", Call1("atom", I(2)))}
ResetCall(x, v) == L(<<S("reset!"), x, v>>)
\* (swap! x (fn* (v) (- 3 v)))
SwapMinus(x) == L(<<S("swap!"), x, Fn(<<S("v")>>, L(<<S("-"), I(3), S("v")>>))>>)
\* (swap! x (fn* (v) (throw v)))
SwapThrow(x) == L(<<S("swap!"), x, Fn(<<S("v")>>, Call1("throw", S("v")))>>)
\* ((fn* (p) (deref p)) x)
DerefCall(x) == L(<<Fn(<<S("p")>>, Call1("deref", S("p"))), x>>)
\* (let* (p x) (= p y))
AtomEq(x, y) == Let(<<S("p"), x>>, L(<<S("="), S("p"), y>>))
\* 1, nil, (deref a), (list a)
NonAtoms == {I(1), NilV, Call1("deref", S("a")), Call1("list", S("a"))}
AtomPrograms ==
    DefAtoms
    \cup {ResetCall(x, v) : x \in AtomRefs, v \in {I(1), I(2)}}
    \cup {SwapMinus(x) : x \in AtomRefs} \cup {SwapThrow(x) : x \in AtomRefs}
    \cup {DerefCall(x) : x \in AtomRefs}
    \cup {AtomEq(x, y) : x \in AtomRefs, y \in AtomRefs \cup NonAtoms}
    \cup {AtomEq(y, x) : x \in AtomRefs, y \in NonAtoms}

\* defmacro! of closures under mc and of other values under mn.
\* (fn* (x) x), (fn* (x) (list (quote +) x 1))
MacroFns == {Fn(<<S("x")>>, S("x")), Fn(<<S("x")>>, L(<<S("list"), Q(S("+")), S("x"), I(1)>>))}
\* +, list, 1, "s", nil, :k, (list 1), [1], zz
NoClosures ==
    {S("+"), S("list"), I(1), String("s"), NilV, Keyword("k"), Call1("list", I(1)),
     Vector(<<I(1)>>), S("zz")}
DefMacroPrograms ==
    {DefMacro("mc", f) : f \in MacroFns} \cup {DefMacro("mn", v) : v \in NoClosures}
    \cup {Let(<<S("y"), I(1)>>, Call1("mc", S("y"))), S("mc"), S("mn")}

\* let* forms with the outcome each should have: a value, or a failure.
LetCase(form, v) == [form |-> form, fails |-> FALSE, v |-> v]
LetFails(form) == [form |-> form, fails |-> TRUE, v |-> GoNil]
\* (let* (x 1 y (+ x 1)) (list x y)), (let* [x 1 y (+ x 1)] (list x y)),
\* (let* (x 1 x (+ x 1)) x),
\* (let* (c (atom 0) p (swap! c + 1) q (swap! c + 1)) (list p q (deref c))),
\* (let* (x 1) (list (let* (x 2 w 3) (+ x w)) x)), (let* () 7)
LetValues ==
    {LetCase(Let(<<S("x"), I(1), S("y"), L(<<S("+"), S("x"), I(1)>>)>>,
                 L(<<S("list"), S("x"), S("y")>>)), L(<<I(1), I(2)>>)),
     LetCase(L(<<S("let*"), Vector(<<S("x"), I(1), S("y"), L(<<S("+"), S("x"), I(1)>>)>>),
                 L(<<S("list"), S("x"), S("y")>>)>>), L(<<I(1), I(2)>>)),
     LetCase(Let(<<S("x"), I(1), S("x"), L(<<S("+"), S("x"), I(1)>>)>>, S("x")), I(2)),
     LetCase(Let(<<S("c"), Call1("atom", I(0)),
                   S("p"), L(<<S("swap!"), S("c"), S("+"), I(1)>>),
                   S("q"), L(<<S("swap!"), S("c"), S("+"), I(1)>>)>>,
                 L(<<S("list"), S("p"), S("q"), Call1("deref", S("c"))>>)),
             L(<<I(1), I(2), I(2)>>)),
     LetCase(Let(<<S("x"), I(1)>>,
                 L(<<S("list"),
                     Let(<<S("x"), I(2), S("w"), I(3)>>, L(<<S("+"), S("x"), S("w")>>)),
                     S("x")>>)), L(<<I(5), I(1)>>)),
     LetCase(Let(<<>>, I(7)), I(7))}
\* (let* (f (fn* () z) z 5) (f)), (let* (x 1) (list (let* (w 3) w) w)),
\* (let* (x) x), (let* (x 1 y) x), (let* (1 2) 3), (let* (x 1 :k 2) x),
\* (let* (y z z 1) y)
LetFailures ==
    {LetFails(Let(<<S("f"), Fn(<<>>, S("z")), S("z"), I(5)>>, L(<<S("f")>>))),
     LetFails(Let(<<S("x"), I(1)>>,
                  L(<<S("list"), Let(<<S("w"), I(3)>>, S("w")), S("w")>>))),
     LetFails(Let(<<S("x")>>, S("x"))),
     LetFails(Let(<<S("x"), I(1), S("y")>>, S("x"))),
     LetFails(Let(<<I(1), I(2)>>, I(3))),
     LetFails(Let(<<S("x"), I(1), Keyword("k"), I(2)>>, S("x"))),
     LetFails(Let(<<S("y"), S("z"), S("z"), I(1)>>, S("y")))}
\* (let* (y x x 1) (list x y)): y is the x of the enclosing frame
LetOuterX == Let(<<S("y"), S("x"), S("x"), I(1)>>, L(<<S("list"), S("x"), S("y")>>))
LetNames == {"x", "y", "z", "w", "c", "p", "q", "f"}
LetPrograms ==
    {c.form : c \in LetValues \cup LetFailures}
    \cup {LetOuterX, Def("x", I(10)), Def("y", I(20))} \cup {S(n) : n \in {"x", "y", "w"}}

\* do forms.
Throw(v) == Call1("throw", v)
\* (let* (t (atom 0)) (do (swap! t + 1) (swap! t * 2) (swap! t + 3)))
DoInOrder ==
    Let(<<S("t"), Call1("atom", I(0))>>,
        Do(<<L(<<S("swap!"), S("t"), S("+"), I(1)>>), L(<<S("swap!"), S("t"), S("*"), I(2)>>),
             L(<<S("swap!"), S("t"), S("+"), I(3)>>)>>))
\* (def! g (atom 0))
DefAtomG == Def("g", Call1("atom", I(0)))
\* (do (reset! g 1) (throw "e") (reset! g 2))
DoThrow == Do(<<ResetCall(S("g"), I(1)), Throw(String("e")), ResetCall(S("g"), I(2))>>)
\* (do (reset! g 2) 7)
DoReset == Do(<<ResetCall(S("g"), I(2)), I(7)>>)
\* (do (def! u 1) zz (def! v 2))
DoUnbound == Do(<<Def("u", I(1)), S("zz"), Def("v", I(2))>>)
\* (let* (x 5) (do (def! w 1) (+ x w)))
DoInLet == Let(<<S("x"), I(5)>>, Do(<<Def("w", I(1)), L(<<S("+"), S("x"), S("w")>>)>>))
DoPrograms ==
    {Do(<<>>), Do(<<I(1), I(2), I(3)>>), DoInOrder, DefAtomG, DoThrow, DoReset, DoUnbound,
     DoInLet, Call1("deref", S("g")), S("u"), S("v")}

\* if forms: the tests with the branch each should select.
\* false, nil
FalseTests == {Boolean(FALSE), NilV}
\* true, 0, 1, "", :k, (list), [], {}, +, (fn* () false), (atom false), (list nil)
TrueTests ==
    {Boolean(TRUE), I(0), I(1), String(""), Keyword("k"), L(<<S("list")>>), Vector(<<>>),
     Map(<<>>), S("+"), Fn(<<>>, Boolean(FALSE)), Call1("atom", Boolean(FALSE)),
     Call1("list", NilV)}
If(items) == L(<<S("if")>> \o items)
\* (let* (t (atom 0))
\*   (list (if (do (swap! t + 1) <test>) (do (swap! t + 10) :then)
\*             (do (swap! t + 100) :else))
\*         (deref t)))
IfCount(test) ==
    Let(<<S("t"), Call1("atom", I(0))>>,
        L(<<S("list"),
            If(<<Do(<<L(<<S("swap!"), S("t"), S("+"), I(1)>>), test>>),
                 Do(<<L(<<S("swap!"), S("t"), S("+"), I(10)>>), Keyword("then")>>),
                 Do(<<L(<<S("swap!"), S("t"), S("+"), I(100)>>), Keyword("else")>>)>>),
            Call1("deref", S("t"))>>))
\* (if <test> 1)
IfNoElse(test) == If(<<test, I(1)>>)
\* (if), (if 1), (if 1 2 3 4)
IfArity == {If(<<>>), If(<<I(1)>>), If(<<I(1), I(2), I(3), I(4)>>)}
IfPrograms ==
    {IfCount(v) : v \in FalseTests \cup TrueTests}
    \cup {IfNoElse(v) : v \in FalseTests \cup TrueTests} \cup IfArity

\* get: the vector [1 2] at the indexes -1..3 and the map {:a 1 "b" 2} at keys
\* it holds and keys it does not hold, without and with the default :d.
GetVector == Vector(<<I(1), I(2)>>)
GetIndexes == {I(i) : i \in -1..3}
GetMap == Map(<<<<Keyword("a"), I(1)>>, <<String("b"), I(2)>>>>)
GetKeys == {Keyword("a"), String("b"), Keyword("b"), String("a"), I(0), NilV}
GetDefault == Keyword("d")
\* (let* (c <coll>) (get c <index>)), (let* (c <coll>) (get c <index> :d))
GetOf(coll, index) == Let(<<S("c"), coll>>, L(<<S("get"), S("c"), index>>))
GetOr(coll, index) == Let(<<S("c"), coll>>, L(<<S("get"), S("c"), index, GetDefault>>))
GetPrograms ==
    {GetOf(GetVector, i) : i \in GetIndexes} \cup {GetOr(GetVector, i) : i \in GetIndexes}
    \cup {GetOf(GetMap, k) : k \in GetKeys} \cup {GetOr(GetMap, k) : k \in GetKeys}

\* concat: up to MaxParts arguments, empty and non-empty (a list, and a
\* Concatenation of a map and a cons cell), and up to MaxRests rest calls on
\* the result.
MaxParts == 3
MaxRests == 3
\* (list), (list 1 2), (concat {:k 1} (cons 0 nil))
ConcatParts ==
    {L(<<S("list")>>), L(<<S("list"), I(1), I(2)>>),
     L(<<S("concat"), Map(<<<<Keyword("k"), I(1)>>>>), L(<<S("cons"), I(0), NilV>>)>>)}
ConcatArgs == UNION {[1..n -> ConcatParts] : n \in 0..MaxParts}
RECURSIVE Rests(_, _)
Rests(form, n) == IF n = 0 THEN form ELSE Call1("rest", Rests(form, n - 1))
\* (let* (c (concat <parts>)) (rest (rest .. c)))
ConcatRests(parts, n) == Let(<<S("c"), L(<<S("concat")>> \o parts)>>, Rests(S("c"), n))
ConcatPrograms == {ConcatRests(parts, n) : parts \in ConcatArgs, n \in 0..MaxRests}

\* Map keys of every kind.
\* 1, "a", (quote s), :k, nil, (list 1 2), [1 2], {:a 1}, (atom 1)
DataKeys ==
    {I(1), String("a"), Q(S("s")), Keyword("k"), NilV, L(<<S("list"), I(1), I(2)>>),
     Vector(<<I(1), I(2)>>), Map(<<<<Keyword("a"), I(1)>>>>), Call1("atom", I(1))}
\* +, (fn* () 1)
FunctionKeys == {S("+"), Fn(<<>>, I(1))}
\* The maps the key is added to: (hash-map), (hash-map k :u), and
\* (hash-map :j 0 k :u [1] 2)
KeyedMaps ==
    {L(<<S("hash-map")>>), L(<<S("hash-map"), S("k"), Keyword("u")>>),
     L(<<S("hash-map"), Keyword("j"), I(0), S("k"), Keyword("u"), Vector(<<I(1)>>), I(2)>>)}
\* (let* (k <key> m (assoc <map> k :v)) (list (get m k) (contains? m k) m))
AssocGet(key, map) ==
    Let(<<S("k"), key, S("m"), L(<<S("assoc"), map, S("k"), Keyword("v")>>)>>,
        L(<<S("list"), L(<<S("get"), S("m"), S("k")>>),
            L(<<S("contains?"), S("m"), S("k")>>), S("m")>>))
KeyPrograms == {AssocGet(k, m) : k \in DataKeys \cup FunctionKeys, m \in KeyedMaps}

\* A closure that calls itself from a catch body:
\* (def! retry (fn* (n) (if (= n 0) 0 (try* FAILING (catch* e (retry (- n 1)))))))
\* with FAILING one of (throw n), zz and (7 8).
MaxRetries == 3
RetryDef(failing) ==
    Def("retry",
        Fn(<<S("n")>>,
           L(<<S("if"), L(<<S("="), S("n"), I(0)>>), I(0),
               Try(failing, Catch("e", Call1("retry", L(<<S("-"), S("n"), I(1)>>))))>>)))
RetryDefs == {RetryDef(f) : f \in {Call1("throw", S("n")), S("zz"), L(<<I(7), I(8)>>)}}
RetryCall(n) == Call1("retry", I(n))
RetryCalls == {RetryCall(n) : n \in 0..MaxRetries}

\* Re-definition of a global name read from derived frames.
\* (def! x 1), (def! x 2)
RedefX == {Def("x", I(1)), Def("x", I(2))}
\* (def! g (let* (y 0) (fn* () x))): a closure that keeps a let* frame
RedefG == Def("g", Let(<<S("y"), I(0)>>, Fn(<<>>, S("x"))))
\* (def! h (fn* () x)): a closure of the global frame
RedefH == Def("h", Fn(<<>>, S("x")))
\* (g), (h), (let* (y 0) x), ((fn* (y) x) 0)
ReadsOfX ==
    {L(<<S("g")>>), L(<<S("h")>>), Let(<<S("y"), I(0)>>, S("x")), L(<<Fn(<<S("y")>>, S("x")), I(0)>>)}
RedefPrograms == RedefX \cup {RedefG, RedefH} \cup ReadsOfX

\* swap!: the values the atom g holds before, and the functions and extra
\* arguments, with what the function gives for the value old of the atom
\* (fails = TRUE: the failure it ends by).
SwapOlds == {5, 7}
\* (swap! g - 2), (swap! g + 2 3), (swap! g list), (swap! g (fn* (v x) (* v x)) 4),
\* (swap! g (fn* (v x) (throw (list v x))) 2), (swap! g (fn* (v) zz)),
\* (swap! g + "a"), (swap! g (fn* (v x) v))
SwapCases(old) ==
    {[f |-> S("-"), xs |-> <<I(2)>>, fails |-> FALSE, v |-> I(old - 2)],
     [f |-> S("+"), xs |-> <<I(2), I(3)>>, fails |-> FALSE, v |-> I(old + 5)],
     [f |-> S("list"), xs |-> <<>>, fails |-> FALSE, v |-> List(<<I(old)>>)],
     [f |-> Fn(<<S("v"), S("x")>>, L(<<S("*"), S("v"), S("x")>>)), xs |-> <<I(4)>>,
      fails |-> FALSE, v |-> I(old * 4)],
     [f |-> Fn(<<S("v"), S("x")>>, Call1("throw", L(<<S("list"), S("v"), S("x")>>))),
      xs |-> <<I(2)>>, fails |-> TRUE, v |-> MalError(List(<<I(old), I(2)>>))],
     [f |-> Fn(<<S("v")>>, S("zz")), xs |-> <<>>, fails |-> TRUE, v |-> Undefined("zz")],
     [f |-> S("+"), xs |-> <<String("a")>>, fails |-> TRUE,
      v |-> GoError("non-integer found")],
     [f |-> Fn(<<S("v"), S("x")>>, S("v")), xs |-> <<>>, fails |-> TRUE,
      v |-> GoError("no expr for bind")]}
\* (do (reset! g <old>) (swap! g <f> <xs>))
SwapOf(old, c) ==
    Do(<<ResetCall(S("g"), I(old)), L(<<S("swap!"), S("g"), c.f>> \o c.xs)>>)
SwapPrograms == {DefAtomG} \cup UNION {{SwapOf(old, c) : c \in SwapCases(old)} : old \in SwapOlds}

\* keys and vals: the maps of up to MaxEntries entries whose keys are
\* distinct keys among :a, :b and "c", the i-th entry with the value i.
MaxEntries == 3
EntryKeys == {Keyword("a"), Keyword("b"), String("c")}
EntryKeyLists ==
    {q \in UNION {[1..n -> EntryKeys] : n \in 0..MaxEntries} :
        \A i, j \in DOMAIN q : q[i] = q[j] => i = j}
EntryMaps == {Map([i \in 1..Len(q) |-> <<q[i], I(i)>>]) : q \in EntryKeyLists}
\* (let* (m <map>) (keys m)), (let* (m <map>) (vals m))
KeysOf(m) == Let(<<S("m"), m>>, Call1("keys", S("m")))
ValsOf(m) == Let(<<S("m"), m>>, Call1("vals", S("m")))
KeysValsPrograms == {KeysOf(m) : m \in EntryMaps} \cup {ValsOf(m) : m \in EntryMaps}

Scenarios ==
    {"tco", "try", "macro", "env", "lex", "qq", "quoted", "seqeq", "build", "atoms",
     "defmacro", "let", "do", "if", "get", "concat", "keys", "retry", "redef", "swap",
     "keysvals"}

Programs(sc) ==
    CASE sc = "tco" -> {CountdownIf, CountdownDo, CountdownLet} \cup CountdownCalls
      [] sc = "try" ->
           {TryThrow(v) : v \in ThrownValues} \cup {TryThrowEq(v) : v \in ThrownValues}
           \cup {TryCount(p.form) : p \in Protected} \cup {TryNoCatch(p.form) : p \in Protected}
           \cup {TryCount(TooFewArgs)}
           \cup Malformed \cup {Guarded(f) : f \in Malformed}
      [] sc = "macro" ->
           {DefMacros, DefM2} \cup MacroCalls
           \cup {Macroexpand(f) : f \in MacroCalls \cup NoMacroCalls}
      [] sc = "env" ->
           {LetShadow, DefX, DefInCall, DefInLet, DefG, CallSetter, CallGetter, LetUnbound,
            S("x"), S("z"), S("w")}
      [] sc = "qq" -> {Quasiquote(L(t)) : t \in Templates \cup {TemplateUnquote, TemplateSplice}}
      [] sc = "quoted" -> {Quasiquote(f) : f \in NonPairForms}
      [] sc = "seqeq" -> {EqCall(a.form, b.form) : a, b \in SeqExprs}
      [] sc = "build" -> BuildPrograms
      [] sc = "atoms" -> AtomPrograms
      [] sc = "defmacro" -> DefMacroPrograms
      [] sc = "let" -> LetPrograms
      [] sc = "do" -> DoPrograms
      [] sc = "if" -> IfPrograms
      [] sc = "get" -> GetPrograms
      [] sc = "concat" -> ConcatPrograms
      [] sc = "keys" -> KeyPrograms
      [] sc = "retry" -> RetryDefs \cup RetryCalls
      [] sc = "redef" -> RedefPrograms
      [] sc = "swap" -> SwapPrograms
      [] sc = "keysvals" -> KeysValsPrograms
      [] sc = "lex" -> DefGlobalX \cup {DefF, DefH, S("x")} \cup CallsOfF \cup CallsOfH

(***************************************************************************)
(* The REPL: rep reads a form and calls EVAL on it in the global frame;    *)
(* each iteration of the loop of that activation is a step.                *)
(***************************************************************************)
Idle == [st |-> "idle", prog |-> GoNil, env |-> 0, form |-> GoNil, iters |-> 0]
NoResult == [prog |-> GoNil, k |-> "none", v |-> GoNil, depth |-> 0, iters |-> 0]

InitFor(scenarios) ==
    /\ scenario \in scenarios
    /\ envImpl \in {"chain", "snapshot"}
    /\ heap = MainEnv
    /\ run = Idle
    /\ last = NoResult
    /\ imms = [i \in {} |-> <<>>]
    /\ colls = {}

\* rep: READ, and the call of EVAL.  A session goes on while the frames
\* that the values it made keep alive are no more than MaxFrames.
Rep(p) ==
    /\ run.st = "idle"
    /\ last.k \notin {"panic", "diverge"}
    /\ Cardinality(DOMAIN heap.envs) <= MaxFrames
    /\ run' = [st |-> "eval", prog |-> p, env |-> GlobalEnv, form |-> p, iters |-> 0]
    /\ last' = NoResult
    /\ UNCHANGED <<heap, scenario, envImpl, imms, colls>>

\* An iteration of the loop of EVAL that ends by continue.
EvalContinue ==
    /\ run.st = "eval"
    /\ run.iters < MaxIters
    /\ Bind(EvalIter(run.env, run.form, heap, 1, MaxFuel), LAMBDA it :
       /\ it.k = "continue"
       /\ heap' = it.H
       /\ run' = [run EXCEPT !.env = it.env, !.form = it.form, !.iters = @ + 1])
    /\ UNCHANGED <<last, scenario, envImpl, imms, colls>>

\* The iteration of the loop of EVAL that returns: rep prints the result.
EvalReturn ==
    /\ run.st = "eval"
    /\ Bind(IF run.iters < MaxIters
                 THEN EvalIter(run.env, run.form, heap, 1, MaxFuel)
                 ELSE Diverge(heap), LAMBDA it :
       /\ it.k # "continue"
       /\ heap' = Collect(it.H, it.v)
       /\ last' = [prog |-> run.prog, k |-> it.k, v |-> it.v, depth |-> it.H.depth,
                   iters |-> run.iters])
    /\ run' = Idle
    /\ UNCHANGED <<scenario, envImpl, imms, colls>>

Next ==
    \/ \E p \in Programs(scenario) : Rep(p)
    \/ EvalContinue
    \/ EvalReturn

Init == InitFor(Scenarios)
Spec == Init /\ [][Next]_vars

\* The sessions of one scenario.
SpecTco == InitFor({"tco"}) /\ [][Next]_vars
SpecTry == InitFor({"try"}) /\ [][Next]_vars
SpecMacro == InitFor({"macro"}) /\ [][Next]_vars
SpecEnv == InitFor({"env"}) /\ [][Next]_vars
SpecLex == InitFor({"lex"}) /\ [][Next]_vars
SpecQq == InitFor({"qq"}) /\ [][Next]_vars
SpecQuoted == InitFor({"quoted"}) /\ [][Next]_vars
SpecSeqEq == InitFor({"seqeq"}) /\ [][Next]_vars
SpecBuild == InitFor({"build"}) /\ [][Next]_vars
SpecAtoms == InitFor({"atoms"}) /\ [][Next]_vars
SpecDefMacro == InitFor({"defmacro"}) /\ [][Next]_vars
SpecLet == InitFor({"let"}) /\ [][Next]_vars
SpecDo == InitFor({"do"}) /\ [][Next]_vars
SpecIf == InitFor({"if"}) /\ [][Next]_vars
SpecGet == InitFor({"get"}) /\ [][Next]_vars
SpecConcat == InitFor({"concat"}) /\ [][Next]_vars
SpecKeys == InitFor({"keys"}) /\ [][Next]_vars
SpecRetry == InitFor({"retry"}) /\ [][Next]_vars
SpecRedef == InitFor({"redef"}) /\ [][Next]_vars
SpecSwap == InitFor({"swap"}) /\ [][Next]_vars
SpecKeysVals == InitFor({"keysvals"}) /\ [][Next]_vars

(***************************************************************************)
(* The collections as Go objects.  A List, a Vector or a Map is a struct   *)
(* that holds a pointer Imm to an object of the immutable library; imms    *)
(* is the store of these objects, by address, each with its elements (the  *)
(* entries of a map in the order its array node keeps them).  Prepend and  *)
(* Append of immutable.List copy.  A MapBuilder made by NewMapBuilder(m)   *)
(* starts on the object m itself with mutable = false: Set and Delete      *)
(* pass the flag to the map, which copies when it is false and writes in   *)
(* place when it is true, and then set the flag; a Delete of a key the map *)
(* does not hold returns the map it was given.                             *)
(***************************************************************************)
MaxColls == 3

\* a new object holding items
ImmNew(objs, items) == [objs |-> (NewId(objs) :> items) @@ objs, id |-> NewId(objs)]

\* types.NewList, types.NewVector and types.NewMap: a struct on a new object
NewObj(objs, t, items) ==
    Bind(ImmNew(objs, IF t = "map" THEN NewMap(items).entries ELSE items), LAMBDA n :
    [objs |-> n.objs, h |-> [t |-> t, imm |-> n.id]])

\* List.Conj (Imm.Prepend) and Vector.Conj (Imm.Append)
ObjConj(objs, h, value) ==
    Bind(ImmNew(objs, IF h.t = "list" THEN <<value>> \o objs[h.imm]
                       ELSE Append(objs[h.imm], value)), LAMBDA n :
    [objs |-> n.objs, h |-> [t |-> h.t, imm |-> n.id]])

\* runtime.Conj on a List or a Vector
RECURSIVE ObjConjLoop(_, _, _, _)
ObjConjLoop(objs, h, values, i) ==
    IF i > Len(values) THEN [objs |-> objs, h |-> h]
    ELSE Bind(ObjConj(objs, h, values[i]), LAMBDA n :
         ObjConjLoop(n.objs, n.h, values, i + 1))

NewMapBuilder(m) == [m |-> m, mutable |-> FALSE]

\* MapBuilder.Set
MapBuilderSet(objs, b, key, value) ==
    IF b.mutable
    THEN [objs |-> [objs EXCEPT ![b.m] = MapSet(@, key, value)], b |-> b]
    ELSE Bind(ImmNew(objs, MapSet(objs[b.m], key, value)), LAMBDA n :
         [objs |-> n.objs, b |-> [m |-> n.id, mutable |-> TRUE]])

\* MapBuilder.Delete
MapBuilderDelete(objs, b, key) ==
    IF MapIndex(objs[b.m], key, 1) = 0 THEN [objs |-> objs, b |-> [b EXCEPT !.mutable = TRUE]]
    ELSE IF b.mutable
    THEN [objs |-> [objs EXCEPT ![b.m] = MapDelete(@, key)], b |-> b]
    ELSE Bind(ImmNew(objs, MapDelete(objs[b.m], key)), LAMBDA n :
         [objs |-> n.objs, b |-> [m |-> n.id, mutable |-> TRUE]])

\* the loop of assoc: args[1] is the map
RECURSIVE ObjAssocLoop(_, _, _, _)
ObjAssocLoop(objs, b, args, i) ==
    IF i >= Len(args) THEN [objs |-> objs, b |-> b]
    ELSE Bind(MapBuilderSet(objs, b, args[2], args[i + 1]), LAMBDA n :
         ObjAssocLoop(n.objs, n.b, args, i + 2))

\* the loop of dissoc: args[1] is the map
RECURSIVE ObjDissocLoop(_, _, _, _)
ObjDissocLoop(objs, b, args, i) ==
    IF i > Len(args) THEN [objs |-> objs, b |-> b]
    ELSE Bind(MapBuilderDelete(objs, b, args[i]), LAMBDA n :
         ObjDissocLoop(n.objs, n.b, args, i + 1))

\* the value a struct stands for
ValueOf(objs, h) ==
    CASE h.t = "list" -> List(objs[h.imm])
      [] h.t = "vec" -> Vector(objs[h.imm])
      [] h.t = "map" -> Map(objs[h.imm])

\* the objects that the structs of hs point to
Live(objs, hs) == [id \in {h.imm : h \in hs} |-> objs[id]]

\* The arguments of the calls.
CollElems == {Integer(1), Keyword("a")}
MaxArgs == 1
ElemArgs == UNION {[1..k -> CollElems] : k \in 0..MaxArgs}
MapKeys == {Keyword("a"), Keyword("b")}
KeyVals == {<<Keyword("a"), Integer(1)>>, <<Keyword("b"), Integer(2)>>}
KeyValArgs == {<<>>} \cup KeyVals \cup {p \o q : p \in KeyVals, q \in KeyVals}
KeyArgs == UNION {[1..k -> MapKeys] : k \in 0..2}

InitColl ==
    /\ InitFor({"coll"})
    /\ envImpl = "chain"

\* (list ...), a vector literal, (hash-map ...)
CollNew(t, items) ==
    /\ Cardinality(colls) < MaxColls
    /\ Bind(NewObj(imms, t, items), LAMBDA n :
       /\ colls' = colls \cup {n.h}
       /\ imms' = n.objs)
    /\ UNCHANGED <<heap, run, last, scenario, envImpl>>

\* (conj c ...) on a list or a vector c
CollConj(c, values) ==
    /\ Cardinality(colls) < MaxColls
    /\ c.t \in {"list", "vec"}
    /\ Bind(ObjConjLoop(imms, c, values, 1), LAMBDA n :
       /\ colls' = colls \cup {n.h}
       /\ imms' = Live(n.objs, colls'))
    /\ UNCHANGED <<heap, run, last, scenario, envImpl>>

\* (assoc m k v ...) on a map m
CollAssoc(m, keyvals) ==
    /\ Cardinality(colls) < MaxColls
    /\ m.t = "map"
    /\ Bind(ObjAssocLoop(imms, NewMapBuilder(m.imm), <<m>> \o keyvals, 2), LAMBDA n :
       /\ colls' = colls \cup {[t |-> "map", imm |-> n.b.m]}
       /\ imms' = Live(n.objs, colls'))
    /\ UNCHANGED <<heap, run, last, scenario, envImpl>>

\* (dissoc m k ...) on a map m
CollDissoc(m, keys) ==
    /\ Cardinality(colls) < MaxColls
    /\ m.t = "map"
    /\ Bind(ObjDissocLoop(imms, NewMapBuilder(m.imm), <<m>> \o keys, 2), LAMBDA n :
       /\ colls' = colls \cup {[t |-> "map", imm |-> n.b.m]}
       /\ imms' = Live(n.objs, colls'))
    /\ UNCHANGED <<heap, run, last, scenario, envImpl>>

NextColl ==
    \/ \E t \in {"list", "vec"} : \E items \in ElemArgs : CollNew(t, items)
    \/ \E keyvals \in KeyValArgs : CollNew("map", keyvals)
    \/ \E c \in colls : \E values \in ElemArgs : CollConj(c, values)
    \/ \E m \in colls : \E keyvals \in KeyValArgs : CollAssoc(m, keyvals)
    \/ \E m \in colls : \E keys \in KeyArgs : CollDissoc(m, keys)

\* The calls that make collections from collections.
SpecColl == InitColl /\ [][NextColl]_vars


(***************************************************************************)
(* Calls of DeriveEnv.  The heap is the one of an evaluation that is in    *)
(* the body of (let* (a 5) ...): the global frame and the frames let* has  *)
(* derived from it.  A frame that DeriveEnv returns is dropped before the  *)
(* next call.                                                              *)
(***************************************************************************)
LetHeap ==
    Bind(DeriveEnv(MainEnv, GlobalEnv, <<>>, <<>>), LAMBDA inner :
         DeriveEnv(inner.H, inner.env, <<S("a")>>, <<I(5)>>).H)

MaxParams == 3
MaxExprs == 2
ParamForms == {S("a"), S("b"), S("&"), I(7)}
ParamLists == UNION {[1..n -> ParamForms] : n \in 0..MaxParams}
ExprLists == {[i \in 1..n |-> Integer(i)] : n \in 0..MaxExprs}

InitDerive ==
    /\ scenario = "derive"
    /\ envImpl \in {"chain", "snapshot"}
    /\ heap = LetHeap
    /\ run = Idle
    /\ last = NoResult
    /\ imms = [i \in {} |-> <<>>]
    /\ colls = {}

\* types.DeriveEnv(Outer, binds, exprs)
Derive(Outer, binds, exprs) ==
    /\ last.k = "none"
    /\ Bind(DeriveEnv(heap, Outer, binds, exprs), LAMBDA r :
            /\ heap' = r.H
            /\ last' = [prog |-> <<Outer, binds, exprs>>, k |-> r.k, v |-> r.v,
                        env |-> r.env])
    /\ UNCHANGED <<run, scenario, envImpl, imms, colls>>

\* The caller drops the frame.
DeriveDrop ==
    /\ last.k # "none"
    /\ heap' = LetHeap
    /\ last' = NoResult
    /\ UNCHANGED <<run, scenario, envImpl, imms, colls>>

NextDerive ==
    \/ \E Outer \in DOMAIN heap.envs : \E binds \in ParamLists : \E exprs \in ExprLists :
          Derive(Outer, binds, exprs)
    \/ DeriveDrop

SpecDerive == InitDerive /\ [][NextDerive]_vars

(***************************************************************************)
(* Ranges.  A Range is poured into a slice by runtime.IntoSlice, one Next   *)
(* for each iteration of its loop; run holds the seq and the values of the  *)
(* loop.  The integers are those of the model checker: from the bounds of   *)
(* RangeInts no NextValue comes near the ends of int64 within MaxPour       *)
(* iterations.                                                              *)
(***************************************************************************)
RangeV(Lower, Upper, Step, Finite, NextValue) ==
    [t |-> "range", Lower |-> Lower, Upper |-> Upper, Step |-> Step, Finite |-> Finite,
     NextValue |-> NextValue]

\* runtime.Range
Range(constraints) ==
    IF \E i \in DOMAIN constraints : constraints[i].t # "int"
    THEN [k |-> "err", v |-> invalidType]
    ELSE CASE Len(constraints) = 0 -> [k |-> "ok", v |-> RangeV(0, 0, 1, FALSE, 0)]
           [] Len(constraints) = 1 ->
                [k |-> "ok", v |-> RangeV(0, constraints[1].n, 1, TRUE, 0)]
           [] Len(constraints) = 2 ->
                [k |-> "ok",
                 v |-> RangeV(constraints[1].n, constraints[2].n, 1, TRUE, constraints[1].n)]
           [] Len(constraints) = 3 ->
                [k |-> "ok",
                 v |-> RangeV(constraints[1].n, constraints[2].n, constraints[3].n, TRUE,
                              constraints[1].n)]
           [] OTHER -> [k |-> "err", v |-> invalidValue]

\* Range.Next
RangeNext(r) ==
    IF r.Finite /\ r.NextValue >= r.Upper THEN NextEmpty
    ELSE NextR(FALSE, Integer(r.NextValue), [r EXCEPT !.NextValue = @ + r.Step])

MaxPour == 6
MaxConstraints == 3
RangeInts == -1..2
RangeConstraints ==
    UNION {[1..n -> {Integer(i) : i \in RangeInts}] : n \in 0..MaxConstraints}
    \cup {<<NilV>>, <<I(0), I(1), I(1), I(1)>>}

InitRange ==
    /\ scenario = "range"
    /\ envImpl = "chain"
    /\ heap = MainEnv
    /\ run = Idle
    /\ last = NoResult
    /\ imms = [i \in {} |-> <<>>]
    /\ colls = {}

\* runtime.Range(constraints...), and runtime.IntoSlice of its value up to
\* the loop: Seq gives Nil{} for a range that is empty.
IntoSliceOfRange(constraints) ==
    /\ run.st = "idle"
    /\ Bind(Range(constraints), LAMBDA r :
            IF r.k # "ok"
            THEN /\ last' = [prog |-> constraints, k |-> r.k, v |-> r.v]
                 /\ run' = run
            ELSE /\ run' = [st |-> "pour", prog |-> constraints,
                            seq |-> IF RangeNext(r.v).e THEN NilV ELSE r.v,
                            values |-> <<>>]
                 /\ last' = NoResult)
    /\ UNCHANGED <<heap, scenario, envImpl, imms, colls>>

\* An iteration of the loop of runtime.IntoSlice, while the slice holds less
\* than MaxPour values.
IntoSliceNext ==
    /\ run.st = "pour"
    /\ Len(run.values) < MaxPour
    /\ Bind(IF run.seq = NilV THEN NextEmpty ELSE RangeNext(run.seq), LAMBDA x :
            IF x.e
            THEN /\ last' = [prog |-> run.prog, k |-> "ok", v |-> run.values]
                 /\ run' = Idle
            ELSE /\ run' = [run EXCEPT !.seq = x.tl, !.values = Append(@, x.h)]
                 /\ last' = last)
    /\ UNCHANGED <<heap, scenario, envImpl, imms, colls>>

NextRange ==
    \/ \E constraints \in RangeConstraints : IntoSliceOfRange(constraints)
    \/ IntoSliceNext

SpecRange == InitRange /\ [][NextRange]_vars


(***************************************************************************)
(* The claims                                                              *)
(***************************************************************************)

\* C3: tail-call safety.  While a countdown runs, whatever its size and
\* whichever of if, do and let* holds the recursive call, no more than three
\* activations of EVAL are ever nested; and the countdown completes with 0.
C3_TailCallSafety ==
    /\ run.st = "eval" /\ run.prog \in CountdownCalls => heap.depth <= 3
    /\ last.prog \in CountdownCalls =>
         /\ last.depth <= 3
         /\ last.k \in {"ok", "err"}
         /\ last.k = "err" => last.v = Undefined("countdown")
         /\ last.k = "ok" => last.v = Integer(0)

\* The largest countdown has completed, after at least two iterations of the
\* loop of EVAL for each recursive call.
C3_Witness ==
    /\ last.prog = CountdownCall(MaxCount)
    /\ last.k = "ok"
    /\ last.iters >= 2 * MaxCount

\* C6: when the protected form fails by (throw v), (catch* e e) yields a
\* value equal to v, and (catch* e (= e v)) yields true.
C6_CatchBindsThrownValue ==
    \A v \in ThrownValues :
        /\ last.prog = TryThrow(v) => last.k = "ok" /\ Equals(last.v, v)
        /\ last.prog = TryThrowEq(v) => last.k = "ok" /\ last.v = Boolean(TRUE)

\* C7: a failure of the protected form is never lost.  With a catch clause
\* the catch body is evaluated exactly once with the failure bound to its
\* parameter; with no catch clause the same failure is returned; a protected
\* form that succeeds gives its value and the catch body is not evaluated.
C7_FailureNeverLost ==
    \A p \in Protected :
        /\ last.prog = TryCount(p.form) =>
             /\ last.k = "ok"
             /\ last.v = List(<<p.v, Integer(IF p.fails THEN 1 ELSE 0)>>)
        /\ last.prog = TryNoCatch(p.form) =>
             /\ last.k = (IF p.fails THEN "err" ELSE "ok")
             /\ last.v = p.v

\* C8: every evaluation ends by a value or a failure, never by the abort of
\* the evaluator; a form with too few operands, a built-in with too few
\* arguments and a division by zero each give a failure, which an enclosing
\* try* catches.
C8_NeverAborts ==
    /\ last.k # "panic"
    /\ \A f \in Malformed :
        /\ last.prog = f => last.k = "err"
        /\ last.prog = Guarded(f) => last.k = "ok" /\ last.v = Integer(0)

\* C4: a macro call gives the outcome, value or failure, that evaluating the
\* final expansion of the call as a form gives in the same environment,
\* whether the macro returns a list, a cons cell or a concatenation.
C4_MacroCallIsExpansion ==
    \A c \in MacroCalls :
        last.prog = c =>
            LET ex == macroexpand(GlobalEnv, c, heap, 1, MaxFuel) IN
            ex.k = "ok" =>
                LET r == EVAL(GlobalEnv, ex.v, ex.H, 1, MaxFuel) IN
                last.k = r.k /\ last.v = r.v

\* The head of form is a symbol that the global frame binds to a macro.
HeadNamesMacro(form) ==
    LET s == IntoSlice(form) IN
    /\ s.k = "ok"
    /\ Len(s.v) > 0
    /\ s.v[1].t = "sym"
    /\ LET g == EnvGet(heap, GlobalEnv, s.v[1].name) IN
       g.k = "ok" /\ g.v.t = "fn" /\ g.v.macro

\* C5: macroexpand returns, without error, a form whose head names no macro;
\* that form is its argument, unchanged, when the argument is not a
\* non-empty sequence or its head is not a symbol, is unbound or is bound to
\* a value that is no macro.
C5_MacroexpandFixpoint ==
    \A f \in MacroCalls \cup NoMacroCalls :
        last.prog = Macroexpand(f) =>
            /\ last.k = "ok"
            /\ ~HeadNamesMacro(last.v)
            /\ ~HeadNamesMacro(f) => last.v = f

\* The frames of the chain of env, from env outward.
RECURSIVE Chain(_, _)
Chain(H, env) == IF env = 0 THEN <<>> ELSE <<env>> \o Chain(H, H.envs[env].outer)

\* The places in the chain of env of the frames that bind name.
Binders(H, env, name) ==
    {i \in 1..Len(Chain(H, env)) : name \in DOMAIN H.envs[Chain(H, env)[i]].b}

\* C9: in every frame there is, Get gives the binding of the nearest frame
\* of the chain that binds the name, and the undefined-symbol error with
\* that name when no frame of the chain binds it; so the inner x and y are
\* what (let* (x 1) (let* (x 2 y 3) (+ x y))) adds.
C9_GetNearestBinding ==
    /\ \A e \in DOMAIN heap.envs : \A name \in EnvNames :
         LET at == Binders(heap, e, name) IN
         IF at = {}
         THEN EnvGet(heap, e, name) = [k |-> "err", v |-> Undefined(name)]
         ELSE LET i == CHOOSE j \in at : \A m \in at : j <= m IN
              EnvGet(heap, e, name) =
                  [k |-> "ok", v |-> heap.envs[Chain(heap, e)[i]].b[name]]
    /\ last.prog = LetShadow => last.k = "ok" /\ last.v = Integer(5)
    /\ last.prog = LetUnbound => last.k = "err" /\ last.v = Undefined("zz")

\* The body of the inner let* of the shadowing program is being evaluated:
\* Get gives x as 2 and y as 3 and another frame still binds x to 1.
C9_Witness ==
    /\ run.st = "eval" /\ run.prog = LetShadow
    /\ EnvGet(heap, run.env, "x") = [k |-> "ok", v |-> Integer(2)]
    /\ EnvGet(heap, run.env, "y") = [k |-> "ok", v |-> Integer(3)]
    /\ \E e \in DOMAIN heap.envs :
          "x" \in DOMAIN heap.envs[e].b /\ heap.envs[e].b["x"] = Integer(1)

\* An iteration of the loop of EVAL leaves every frame but the current one
\* as it was, and what def! bound in a derived frame is unbound in the
\* global frame when rep returns.
C10_Step ==
    run.st = "eval" =>
        /\ \A id \in DOMAIN heap.envs \cap DOMAIN heap'.envs :
               id # run.env => heap'.envs[id] = heap.envs[id]
        /\ run'.st = "idle" =>
               /\ \A name \in {"y", "z", "w", "v"} :
                      name \notin DOMAIN heap'.envs[GlobalEnv].b
               /\ run.prog = CallGetter /\ last'.k = "ok" => last'.v = Integer(1)
               /\ run.prog = DefInLet => last'.k = "ok" /\ last'.v = Integer(5)

\* C10: Set, and so def!, writes the current frame only: def! in a frame
\* derived by let* or by a call changes no enclosing frame, the global one
\* included, and its binding is gone once the derived frame is left.
C10_SetWritesCurrentFrame == [][C10_Step]_vars

\* def! has run in the frame derived by the call of the setter: that frame
\* binds x to 3 and the let* frame the setter closed over still binds x to 1.
C10_Witness ==
    /\ run.st = "eval" /\ run.prog = CallSetter /\ run.env # GlobalEnv
    /\ "x" \in DOMAIN heap.envs[run.env].b
    /\ heap.envs[run.env].b["x"] = Integer(3)
    /\ \E e \in DOMAIN heap.envs \ {run.env} :
          "x" \in DOMAIN heap.envs[e].b /\ heap.envs[e].b["x"] = Integer(1)

\* C1: a call of conj, assoc or dissoc leaves every collection made so
\* far, its receiver included, with the elements or entries it had before
\* the call, whatever calls came before.
C1_Persistence ==
    [][\A c \in colls : imms'[c.imm] = imms[c.imm]]_vars

\* C2: values that Equals holds equal have the same Hash: maps with the
\* same entries inserted in different orders, a list and a vector with the
\* same elements.
C2_HashConsistentWithEquals ==
    \A a \in colls : \A b \in colls :
        Equals(ValueOf(imms, a), ValueOf(imms, b))
            => Hash(ValueOf(imms, a)) = Hash(ValueOf(imms, b))

\* C11: DeriveEnv(outer, params, args) fails and leaves the frames as they
\* were when a parameter is no symbol or the arguments are fewer than the
\* positional parameters; otherwise it returns a new frame whose outer link
\* is outer, which binds each positional parameter to the argument of its
\* place (the last parameter of a name, when a name is repeated) and, when
\* the parameter before the last is &, the last one to the List of the
\* arguments after the positional ones; the other frames stay as they were.
C11_DeriveEnv ==
    scenario = "derive" /\ last.k # "none" =>
        LET Outer == last.prog[1]
            binds == last.prog[2]
            exprs == last.prog[3]
            n == Len(binds)
            symbols == \A i \in 1..n : binds[i].t = "sym"
            varargs == symbols /\ n >= 2 /\ binds[n - 1] = Symbol("&")
            m == IF varargs THEN n - 2 ELSE n
        IN IF ~symbols \/ m > Len(exprs)
           THEN last.k = "err" /\ heap = LetHeap
           ELSE /\ last.k = "ok"
                /\ last.env \in DOMAIN heap.envs \ DOMAIN LetHeap.envs
                /\ \A e \in DOMAIN LetHeap.envs : heap.envs[e] = LetHeap.envs[e]
                /\ heap.envs[last.env].outer = Outer
                /\ \A i \in 1..m :
                      (/\ \A j \in (i + 1)..m : binds[j] # binds[i]
                       /\ ~(varargs /\ binds[n] = binds[i]))
                      => /\ binds[i].name \in DOMAIN heap.envs[last.env].b
                         /\ heap.envs[last.env].b[binds[i].name] = exprs[i]
                /\ varargs =>
                      /\ binds[n].name \in DOMAIN heap.envs[last.env].b
                      /\ heap.envs[last.env].b[binds[n].name]
                           = List(SubSeq(exprs, m + 1, Len(exprs)))

\* DeriveEnv was given the parameters (a & b), one argument and a frame
\* that let* derived: b is bound to the empty list.
C11_Witness ==
    /\ scenario = "derive" /\ last.k = "ok"
    /\ last.prog[1] # GlobalEnv
    /\ last.prog[2] = <<Symbol("a"), Symbol("&"), Symbol("b")>>
    /\ last.prog[3] = <<Integer(1)>>
    /\ heap.envs[last.env].b["a"] = Integer(1)
    /\ heap.envs[last.env].b["b"] = List(<<>>)

\* C12: a closure made inside a let* that binds x sees that x on every
\* later call: once f and h are defined, every call of f gives 1 and every
\* call of h with the caller's x = 5 gives 6, whatever the global frame and
\* the caller's frames bind under x.
C12_LexicalScoping ==
    scenario = "lex" /\ last.k # "none" =>
        /\ last.prog \in CallsOfF /\ "f" \in DOMAIN heap.envs[GlobalEnv].b
             => last.k = "ok" /\ last.v = Integer(1)
        /\ last.prog \in CallsOfH /\ "h" \in DOMAIN heap.envs[GlobalEnv].b
             => last.k = "ok" /\ last.v = Integer(6)

\* f was called under a let* that binds x to 2 while the global x is 20.
C12_Witness ==
    /\ scenario = "lex"
    /\ last.prog = Let(<<S("x"), I(2)>>, L(<<S("f")>>))
    /\ last.k = "ok" /\ last.v = Integer(1)
    /\ "x" \in DOMAIN heap.envs[GlobalEnv].b
    /\ heap.envs[GlobalEnv].b["x"] = Integer(20)

\* The elements that a template element stands for: the value of e for
\* (unquote e), the elements of the value of e for (splice-unquote e), the
\* element itself otherwise.
TemplatePart(el) ==
    IF el.t = "list" /\ Len(el.items) = 2 /\ el.items[1] = S("unquote")
    THEN <<EVAL(GlobalEnv, el.items[2], MainEnv, 1, MaxFuel).v>>
    ELSE IF el.t = "list" /\ Len(el.items) = 2 /\ el.items[1] = S("splice-unquote")
    THEN EVAL(GlobalEnv, el.items[2], MainEnv, 1, MaxFuel).v.items
    ELSE <<el>>
RECURSIVE TemplateValue(_, _)
TemplateValue(t, i) ==
    IF i > Len(t) THEN <<>> ELSE TemplatePart(t[i]) \o TemplateValue(t, i + 1)

\* C13: (quasiquote t) for a list template t gives a sequence Equal to the
\* list of the elements of t with every (unquote e) replaced by the value of
\* e and every (splice-unquote e) by the elements of the value of e, the
\* other elements unevaluated.
C13_QuasiquoteTemplate ==
    scenario = "qq" /\ last.k # "none" =>
        /\ last.k = "ok"
        /\ Equals(last.v, List(TemplateValue(last.prog.items[2].items, 1)))

\* C14: for a form that is an integer, a string, a symbol, a keyword, nil,
\* the empty list, a map or a vector, quasiquote(form) is the list
\* (quote form), the form with which the loop of EVAL continues; and the
\* evaluation of a quasiquoted vector returns a vector Equal to it.
C14_QuasiquoteQuotes ==
    scenario = "quoted" =>
        /\ run.st = "eval" /\ run.iters = 1 => run.form = Q(run.prog.items[2])
        /\ last.k # "none" /\ last.prog.items[2].t = "vec"
             => last.k = "ok" /\ last.v.t = "vec" /\ Equals(last.v, last.prog.items[2])

\* C15: two sequences, each a list, a vector, a cons cell, the result of
\* concat, the tail returned by rest or the result of take, are Equal
\* exactly when they hold the same items in the same order, in either
\* argument order.
C15_SequenceEquality ==
    scenario = "seqeq" /\ last.k # "none" =>
        \A a, b \in SeqExprs :
            last.prog = EqCall(a.form, b.form)
            => last.k = "ok" /\ last.v = Boolean(a.items = b.items)

\* C16: the maps that hash-map, one assoc with all the pairs and successive
\* assoc calls with one pair each build from the same pairs are Equal and
\* hold every pair; the vectors that the vector builtin, the vector literal
\* and conj onto an empty vector build from the same values are Equal and
\* their count is the number of values.
C16_BuildersAgree ==
    scenario = "build" /\ last.k # "none" =>
        /\ \A kv \in PairLists : \A x \in MapBuilds(kv) :
              /\ \A y \in MapBuilds(kv) :
                    last.prog = EqCall(x, y) => last.k = "ok" /\ last.v = Boolean(TRUE)
              /\ \A i \in 1..(Len(kv) \div 2) :
                    last.prog = GetCall(x, kv[2 * i - 1])
                    => last.k = "ok" /\ last.v = kv[2 * i]
        /\ \A c \in ItemLists : \A x \in VectorBuilds(c) :
              /\ \A y \in VectorBuilds(c) :
                    last.prog = EqCall(x, y) => last.k = "ok" /\ last.v = Boolean(TRUE)
              /\ last.prog = Call1("count", x)
                    => last.k = "ok" /\ last.v = Integer(Len(c))

\* The global bindings, and whether the names of a form are bound.
Global == heap.envs[GlobalEnv].b
Bound(x) == x.t = "sym" => x.name \in DOMAIN Global

Cell(H, x) == H.atoms[Global[x.name].id]

\* C18: a reset! or a successful swap! through a reference x makes every
\* reference to the same atom hold the written value and leaves the cells
\* of the other atoms as they were; a failing swap! and every step that is
\* no write leave all cells as they were; deref through a reference gives
\* the value the cell holds.
C18_Step ==
    scenario = "atoms" /\ run.st = "eval" =>
        /\ \A id \in DOMAIN heap.atoms \cap DOMAIN heap'.atoms :
              heap'.atoms[id] # heap.atoms[id]
              => /\ run'.st = "idle" /\ last'.k = "ok"
                 /\ \E x \in AtomRefs :
                       /\ Bound(x) /\ Global[x.name].id = id
                       /\ \/ \E v \in {I(1), I(2)} : run.prog = ResetCall(x, v)
                          \/ run.prog = SwapMinus(x)
        /\ run'.st = "idle" =>
              \A x \in AtomRefs : Bound(x) =>
                 /\ \A v \in {I(1), I(2)} : run.prog = ResetCall(x, v) =>
                       /\ last'.k = "ok" /\ last'.v = v /\ Global' = Global
                       /\ \A y \in AtomRefs : Bound(y) =>
                             Cell(heap', y) = IF Global[y.name] = Global[x.name]
                                              THEN v ELSE Cell(heap, y)
                 /\ run.prog = SwapMinus(x) =>
                       /\ last'.k = "ok" /\ last'.v = I(3 - Cell(heap, x).n)
                       /\ Global' = Global
                       /\ \A y \in AtomRefs : Bound(y) =>
                             Cell(heap', y) = IF Global[y.name] = Global[x.name]
                                              THEN I(3 - Cell(heap, x).n) ELSE Cell(heap, y)
                 /\ run.prog = SwapThrow(x) => last'.k = "err"
                 /\ run.prog = DerefCall(x) =>
                       last'.k = "ok" /\ last'.v = Cell(heap, x)
C18_SharedCell == [][C18_Step]_vars

\* 2 was written through c: a holds 2 and b still holds 1.
C18_Witness ==
    /\ scenario = "atoms" /\ last.prog = ResetCall(S("c"), I(2)) /\ last.k = "ok"
    /\ {"a", "b", "c"} \subseteq DOMAIN Global
    /\ Global["a"] = Global["c"] /\ Global["a"] # Global["b"]
    /\ heap.atoms[Global["a"].id] = I(2)
    /\ heap.atoms[Global["b"].id] = I(1)

\* C19: defmacro! of a value that is no closure (a native function or a
\* value that is no function) fails and binds nothing: mn is never bound;
\* defmacro! of a closure returns that closure flagged as a macro and binds
\* it under the symbol.
C19_DefMacroNeedsClosure ==
    scenario = "defmacro" =>
        /\ "mn" \notin DOMAIN Global
        /\ \A v \in NoClosures : last.prog = DefMacro("mn", v) => last.k = "err"
        /\ \A f \in MacroFns : last.prog = DefMacro("mc", f) =>
              /\ last.k = "ok" /\ last.v = Global["mc"]
              /\ last.v = [Closure(f.items[2].items, f.items[3], GlobalEnv)
                             EXCEPT !.macro = TRUE]

\* C20: a let* gives the value of its body in the innermost frame, with
\* each initializer evaluated in order and seeing the earlier bindings and
\* the enclosing frame but no later binding; it fails on a binding vector of
\* odd length and on a binding name that is no symbol; and the global frame
\* holds only what def! bound there: x is 10 and y is 20 when bound, and no
\* other name of a let* is bound.
C20_LetStar ==
    scenario = "let" =>
        /\ \A c \in LetValues : last.prog = c.form => last.k = "ok" /\ last.v = c.v
        /\ \A c \in LetFailures : last.prog = c.form => last.k = "err"
        /\ last.prog = LetOuterX =>
              IF "x" \in DOMAIN Global
              THEN last.k = "ok" /\ last.v = L(<<I(1), I(10)>>)
              ELSE last.k = "err" /\ last.v = Undefined("x")
        /\ LetNames \cap DOMAIN Global \subseteq {"x", "y"}
        /\ "x" \in DOMAIN Global => Global["x"] = I(10)
        /\ "y" \in DOMAIN Global => Global["y"] = I(20)

\* With the global x bound to 10, (let* (y x x 1) (list x y)) gave (1 10)
\* and x is still 10 in the global frame.
C20_Witness ==
    /\ scenario = "let" /\ last.prog = LetOuterX
    /\ last.k = "ok" /\ last.v = L(<<I(1), I(10)>>)
    /\ "x" \in DOMAIN Global /\ Global["x"] = I(10)
    /\ "y" \notin DOMAIN Global

\* C21: do gives the value of its last subform after evaluating the
\* subforms in order in the current frame; (do) gives nil; when a subform
\* fails the do gives that failure, the writes of the earlier subforms are
\* done and those of the later subforms are not.
C21_DoInOrder ==
    scenario = "do" =>
        /\ last.prog = Do(<<>>) => last.k = "ok" /\ last.v = NilV
        /\ last.prog = Do(<<I(1), I(2), I(3)>>) => last.k = "ok" /\ last.v = I(3)
        /\ last.prog = DoInOrder => last.k = "ok" /\ last.v = I(5)
        /\ last.prog = DoInLet => last.k = "ok" /\ last.v = I(6)
        /\ {"v", "w"} \cap DOMAIN Global = {}
        /\ last.prog = DoThrow /\ "g" \in DOMAIN Global =>
              /\ last.k = "err" /\ last.v = MalError(String("e"))
              /\ heap.atoms[Global["g"].id] = I(1)
        /\ last.prog = DoReset /\ "g" \in DOMAIN Global =>
              last.k = "ok" /\ last.v = I(7) /\ heap.atoms[Global["g"].id] = I(2)
        /\ last.prog = DoUnbound =>
              /\ last.k = "err" /\ last.v = Undefined("zz")
              /\ "u" \in DOMAIN Global /\ Global["u"] = I(1)

\* In a session that has bound g and u, (do (reset! g 1) (throw "e")
\* (reset! g 2)) failed and g holds 1.
C21_Witness ==
    /\ scenario = "do" /\ last.prog = DoThrow /\ last.k = "err"
    /\ {"g", "u"} \subseteq DOMAIN Global
    /\ heap.atoms[Global["g"].id] = I(1)

\* C22: if fails unless it has 2 or 3 operands; it evaluates the test once
\* and then only the chosen branch, the else branch exactly when the test
\* is false or nil and the then branch for every other value; with a false
\* or nil test and no else branch it gives nil.
C22_IfBranches ==
    scenario = "if" =>
        /\ \A v \in FalseTests :
              /\ last.prog = IfCount(v)
                    => last.k = "ok" /\ last.v = L(<<Keyword("else"), I(101)>>)
              /\ last.prog = IfNoElse(v) => last.k = "ok" /\ last.v = NilV
        /\ \A v \in TrueTests :
              /\ last.prog = IfCount(v)
                    => last.k = "ok" /\ last.v = L(<<Keyword("then"), I(11)>>)
              /\ last.prog = IfNoElse(v) => last.k = "ok" /\ last.v = I(1)
        /\ last.prog \in IfArity => last.k = "err"

\* The test 0 selected the then branch after one evaluation of the test.
C22_Witness ==
    /\ scenario = "if" /\ last.prog = IfCount(I(0))
    /\ last.k = "ok" /\ last.v = L(<<Keyword("then"), I(11)>>)

\* C23: get of a vector at an index outside 0..count-1 fails, without or
\* with a default; get of a vector at an index inside gives the element; get
\* of a map at a key it does not hold gives the default of the caller (nil
\* when there is none) and at a key it holds the value of the key.
C23_GetOutOfRange ==
    scenario = "get" =>
        /\ \A i \in GetIndexes :
              last.prog \in {GetOf(GetVector, i), GetOr(GetVector, i)} =>
                  IF i.n \in 0..1 THEN last.k = "ok" /\ last.v = I(i.n + 1)
                  ELSE last.k = "err"
        /\ \A k \in GetKeys \ {Keyword("a"), String("b")} :
              /\ last.prog = GetOf(GetMap, k) => last.k = "ok" /\ last.v = NilV
              /\ last.prog = GetOr(GetMap, k) => last.k = "ok" /\ last.v = GetDefault
        /\ last.prog \in {GetOf(GetMap, Keyword("a")), GetOr(GetMap, Keyword("a"))}
              => last.k = "ok" /\ last.v = I(1)
        /\ last.prog \in {GetOf(GetMap, String("b")), GetOr(GetMap, String("b"))}
              => last.k = "ok" /\ last.v = I(2)

\* Next of the Concatenation c neither fails nor reports empty, and its tail
\* is a value.
NextOfConcatenation(c) ==
    Bind(SeqNext(c), LAMBDA x : ~x.p /\ ~x.e /\ x.tl # GoNil)

\* Every Concatenation in the seq v has two members or more, all of them
\* non-empty, and a Next that gives a head and a tail.
RECURSIVE ConcatenationsSound(_)
ConcatenationsSound(v) ==
    CASE v.t = "concat" ->
           /\ Len(v.seqs) >= 2
           /\ \A i \in 1..Len(v.seqs) :
                 /\ ~SeqNext(v.seqs[i]).p /\ ~SeqNext(v.seqs[i]).e
                 /\ ConcatenationsSound(v.seqs[i])
           /\ NextOfConcatenation(v)
      [] v.t = "cons" -> ConcatenationsSound(v.tail)
      [] OTHER -> TRUE

\* C24: every Concatenation that concat returns, and every Concatenation that
\* rest calls (Next) on it give, has at least two members, each non-empty,
\* and its Next gives a head and a tail that is a value.
C24_ConcatenationMembers ==
    scenario = "concat" /\ last.k = "ok" => ConcatenationsSound(last.v)

\* Two rests of a concat of three non-empty parts have used up the first
\* part: the Concatenation of the other two is left.
C24_Witness ==
    /\ scenario = "concat"
    /\ \E p \in ConcatParts :
          /\ last.prog = ConcatRests(<<L(<<S("list"), I(1), I(2)>>), p, p>>, 2)
          /\ last.k = "ok" /\ last.v.t = "concat" /\ Len(last.v.seqs) = 2
          /\ last.v.seqs[1].t = "concat"

\* C25: for a key k of any kind (integer, string, symbol, keyword, nil,
\* list, vector, map, function, atom) and a map m, after (assoc m k :v) the
\* get of k gives :v, contains? of k is true, and no two entries of the map
\* have Equal keys.
C25_AnyValueIsAKey ==
    scenario = "keys" /\ last.prog \in KeyPrograms =>
        /\ last.k = "ok"
        /\ last.v.items[1] = Keyword("v")
        /\ last.v.items[2] = Boolean(TRUE)
        /\ \A i, j \in 1..Len(last.v.items[3].entries) :
              Equals(last.v.items[3].entries[i][1], last.v.items[3].entries[j][1]) => i = j

\* C26: the catch body of try* is a tail position: a closure that calls
\* itself from its catch body completes with 0 and, whatever the number of
\* these calls, nests no more activations of EVAL than one such call does
\* (four: the call, the catch body, the call in it, its argument).
C26_CatchBodyIsTail ==
    scenario = "retry" /\ last.prog \in RetryCalls /\ last.k # "err" =>
        last.k = "ok" /\ last.v = I(0) /\ last.depth <= 4

\* C27: once the global frame binds x, every read of x from a frame derived
\* from it that does not bind x (the let* frame a closure keeps, made before
\* or after the last def! of x; the frame of a call; a new let* frame) gives
\* the value the global frame holds now.
C27_RedefinitionSeen ==
    scenario = "redef" /\ last.prog \in ReadsOfX /\ last.k = "ok" =>
        "x" \in DOMAIN Global /\ last.v = Global["x"]

\* C28: swap! of an atom that holds old, with a function f and extra
\* arguments xs, stores f(old, xs...) in the atom and returns it; when f
\* fails, swap! ends by that failure and the atom holds old as before.
C28_Swap ==
    scenario = "swap" /\ "g" \in DOMAIN Global =>
        \A old \in SwapOlds : \A c \in SwapCases(old) :
            last.prog = SwapOf(old, c) =>
                /\ last.k = (IF c.fails THEN "err" ELSE "ok")
                /\ last.v = c.v
                /\ heap.atoms[Global["g"].id] = (IF c.fails THEN I(old) ELSE c.v)

\* A swap! whose function threw has left 7 in the atom, and the failure
\* carries the arguments the function was given.
C28_Witness ==
    /\ scenario = "swap" /\ "g" \in DOMAIN Global
    /\ last.k = "err" /\ last.v = MalError(List(<<I(7), I(2)>>))
    /\ heap.atoms[Global["g"].id] = I(7)

\* The list v holds each of the n values of column which (1: keys, 2: values)
\* of the entries once, and nothing else.
ExactlyTheColumn(v, entries, which) ==
    /\ v.t = "list" /\ Len(v.items) = Len(entries)
    /\ \A i \in 1..Len(entries) :
          Cardinality({j \in 1..Len(v.items) : v.items[j] = entries[i][which]}) = 1
    /\ \A j \in 1..Len(v.items) : v.items[j] # GoNil

\* C29: keys of a map of n entries gives a list of n elements, each key of
\* the map once, and vals a list of n elements, each value once; no element
\* is an unset slot.
C29_KeysAndVals ==
    scenario = "keysvals" =>
        \A m \in EntryMaps :
            /\ last.prog = KeysOf(m) => last.k = "ok" /\ ExactlyTheColumn(last.v, m.entries, 1)
            /\ last.prog = ValsOf(m) => last.k = "ok" /\ ExactlyTheColumn(last.v, m.entries, 2)

\* C30: a range made with an upper bound reaches the empty state after
\* finitely many Next calls, whatever its lower bound, upper bound and step.
\* The loop that pours it is deterministic, so it can only end if no Next
\* gives back the very range it was taken from: every iteration on a finite
\* range leaves the loop with another seq.
C30_Step ==
    run.st = "pour" /\ run'.st = "pour" /\ run.seq.Finite => run'.seq # run.seq
C30_FiniteRangeEnds == [][C30_Step]_vars

====
